---- MODULE Spec2Model ----
(***************************************************************************)
(* Durable step-execution engine of agent_relay (src/agent_relay):         *)
(* AgentSession.execute_tool_call, its wait-for-existing path, the usage   *)
(* accounting with the budget cap, and the compensation driver, run by the *)
(* thread that owns the session scope ("m") and one worker thread ("w")    *)
(* that shares the session object; and the replay driver: a replay        *)
(* session over the recorded calls of the run, once the run has ended.     *)
(***************************************************************************)
EXTENDS Integers, Sequences, FiniteSets, TLC

\* ------------------------------------------------------------------ bounds
MaxCalls == 2      \* forward calls issued by the workflow in one session
MaxDepth == 2      \* nesting depth of step calls inside user functions
MaxPolls == 2      \* sleeps of pending_poll_interval_s that fit in pending_timeout_s
MaxNest == 1       \* nesting depth of the containers passed as step arguments

\* --------------------------------------------------------------- constants
NONE == "none"
Threads == {"m", "w"}
Tools == {"a", "b", "l"}
Args == {1}        \* the positional arguments the workflow passes to a step
RunId == "R1"

\* costs, in cents, that the usage parser of an "l" call can report
UsageCosts == {1, 2}


\* what usage_parser(output) gives: {} is None, {c} an LLMUsage of cost c;
\* "l" is an LLM call, "a" a step that is called with or without a parser
Usages(tool) ==
    CASE tool = "l" -> {{c} : c \in UsageCosts}
      [] tool = "a" -> {{}, {2}}
      [] OTHER -> {{}}

\* AgentRuntime.compensations as the callers pass it: step -> compensator
compensations(tool) ==
    CASE tool = "a" -> "ua"
      [] tool = "b" -> "ub"
      [] OTHER -> NONE

\* what the user function of a step returns: a dict, a tuple, ...
FuncOutput(tool, arg) ==
    IF tool = "b" THEN <<"tuple", arg>> ELSE <<"dict", tool, arg>>

\* _serialize_json: tuples become lists, JSON-safe values are kept
serialize_json(data) ==
    IF data = NONE THEN NONE
    ELSE IF data[1] = "tuple" THEN <<"list", data[2]>>
    ELSE IF data[1] = "obj" THEN <<"str", data[2]>>
    ELSE data

\* JSON null, the serialized None
NULL == <<"null">>

\* _serialize_json of the list of step results a workflow returns
serialize_result(vals) ==
    <<"list", [i \in 1..Len(vals) |-> serialize_json(vals[i])]>>

json_dumps(v) == <<"json", v>>
json_loads(s) == s[2]
deserialize_json(output) == output

\* _compute_idempotency_key: sha256 of the canonical JSON of
\* {tool, phase, args, kwargs}; the hash is taken to be injective
compute_idempotency_key(tool, arg, phase) == <<tool, phase, arg>>

\* the exceptions a user function raises by itself: an Exception, or a
\* BaseException by which the host cancels the workflow
FuncErrors == {"ToolFailure", "Cancelled"}

\* "except Exception" (lines 426 and 570): is e caught by it
is_exception(e) == e # "Cancelled"

\* the thread the host delivers its cancellation to: the one that runs the
\* workflow body
Cancellable == {"m"}

\* ------------------------------------------ Python values and their keys
\* a Python value: its type, the text of a scalar, the items of a container
\* (for a dict: key, value, key, value, ...)
PyInt(txt) == [type |-> "int", text |-> txt, items |-> <<>>]
PyStr(txt) == [type |-> "str", text |-> txt, items |-> <<>>]
PyList(q) == [type |-> "list", text |-> "", items |-> q]
PyTuple(q) == [type |-> "tuple", text |-> "", items |-> q]
PyDict(q) == [type |-> "dict", text |-> "", items |-> q]

Scalars == {PyInt("1"), PyStr("1")}

\* the values of container nesting depth at most d
RECURSIVE PyValues(_)
PyValues(d) ==
    IF d = 0 THEN Scalars
    ELSE LET V == PyValues(d - 1) IN
         V \cup {PyList(<<v>>) : v \in V} \cup {PyTuple(<<v>>) : v \in V}
           \cup {PyDict(<<k, v>>) : k \in Scalars, v \in V}

RECURSIVE Join(_, _)
Join(q, sep) ==
    IF Len(q) = 0 THEN ""
    ELSE IF Len(q) = 1 THEN q[1]
    ELSE q[1] \o sep \o Join(Tail(q), sep)

\* json.dumps: the text of a value with the given item and key separators;
\* a tuple is written as a list, a dict key that is not a str is written as
\* the str of it
RECURSIVE dumps(_, _, _)
dumps(v, isep, ksep) ==
    CASE v.type = "int" -> v.text
      [] v.type = "str" -> "\"" \o v.text \o "\""
      [] v.type \in {"list", "tuple"} ->
           "[" \o Join([i \in 1..Len(v.items) |-> dumps(v.items[i], isep, ksep)], isep) \o "]"
      [] OTHER ->
           "{" \o Join([i \in 1..(Len(v.items) \div 2) |->
                         "\"" \o v.items[2 * i - 1].text \o "\"" \o ksep
                              \o dumps(v.items[2 * i], isep, ksep)], isep) \o "}"

\* hashlib.sha256(...).hexdigest(), taken to be injective
sha256(txt) == <<"sha256", txt>>

\* AgentSession._compute_idempotency_key for a call with the one positional
\* argument v: json.dumps of the payload dict with sort_keys=True
idempotency_key_of(tool, phase, v) ==
    sha256(dumps(PyDict(<<PyStr("args"), PyTuple(<<v>>),
                          PyStr("kwargs"), PyDict(<<>>),
                          PyStr("phase"), PyStr(phase),
                          PyStr("tool"), PyStr(tool)>>), ", ", ": "))

\* idempotency.py, lines 26-27: a list and a tuple are both tagged "list"
tagged_sequence(type) == "list"

\* idempotency._tagged (lines 19-32): the value as a JSON structure that
\* carries the type names; the keys of a dict are left as they are
RECURSIVE tagged(_)
tagged(o) ==
    CASE o.type \in {"int", "str"} ->
           PyDict(<<PyStr("__type__"), PyStr(o.type), PyStr("value"), o>>)
      [] o.type \in {"list", "tuple"} ->
           PyDict(<<PyStr("__type__"), PyStr(tagged_sequence(o.type)), PyStr("value"),
                    PyList([i \in 1..Len(o.items) |-> tagged(o.items[i])])>>)
      [] OTHER ->
           PyDict(<<PyStr("__type__"), PyStr("dict"), PyStr("value"),
                    PyDict([i \in 1..Len(o.items) |->
                              IF i % 2 = 1 THEN o.items[i] ELSE tagged(o.items[i])])>>)

\* idempotency.canonical_json (lines 34-41)
canonical_json(obj) == dumps(tagged(obj), ",", ":")

\* idempotency.idem_key (lines 43-50) for a call with the one positional
\* argument v
idem_key(namespace, step_name, v) ==
    sha256(canonical_json(PyDict(<<PyStr("args"), PyTuple(<<v>>),
                                   PyStr("kwargs"), PyDict(<<>>),
                                   PyStr("ns"), PyStr(namespace),
                                   PyStr("step"), PyStr(step_name)>>)))

VARIABLES
    sphase,          \* the session scope: "init" | "open" | "comp" | "closed",
                     \* then the scope of replay_run: "replay" | "replayed"
    compensate_on_budget_exceeded,  \* the session option
    budget_limit,    \* the session option, in cents: {} is None, {n} the cap n
    direct,          \* history, per thread: calls a step wrapper passed straight
                     \* to the function
    kx, ky,          \* key study: the argument of two step calls
    kkeys,           \* key study: the keys computed for them (<<>> before)
    tsteps,          \* AgentTrail: the steps table of the shared database
    truns,           \* AgentTrail: the status of the run row of each trail
    treplay,         \* AgentTrail: the replay option of each trail
    tctl,            \* AgentTrail: where each trail is in run()
    tran,            \* history: successful completions of a step body, per key
    tcomp,           \* history, per trail: the compensators invoked, in order
    registry,        \* AgentRuntime.tools: names of the registered compensators
    run,             \* the agent_runs row of the session (NONE before enter)
    rows,            \* the tool_calls table, in insertion order; id = index
    seq_no,          \* AgentSession.seq_no
    executed_steps,  \* AgentSession.executed_steps
    total_cost,      \* AgentSession.total_cost
    sess_status,     \* AgentSession.status
    sess_error,      \* AgentSession.error
    comp_i,          \* position of the reversed() iterator of _run_compensations
    exit_exc,        \* the exception __exit__ was called with (NONE: none)
    stack,           \* per thread: the active execute_tool_call frames
    cur_call,        \* per thread: the ambient current_call_id (0: None)
    last,            \* per thread: what the last top-level call raised (NONE: it returned)
    ncalls,          \* forward calls issued so far
    invoked,         \* history: times the user function ran, per fingerprint
    outcomes,        \* history: how each execute_tool_call ended
    completed,       \* history: forward calls in the order they returned
    current_session, \* the ambient current_session (NONE: None)
    outer_session,   \* the session that was ambient when the scope was entered
    propagated,      \* the exception that left the session scope (NONE: none)
    comp_ran,        \* history: the sessions whose __exit__ called _run_compensations
    script,          \* history: the step calls of the workflow body, with their results
    exported,        \* export_run(R) taken before the replay (NONE before)
    replay_calls,    \* replay session: _replay_calls
    replay_index,    \* replay session: _replay_index
    replay_status,   \* replay session: status
    replay_error,    \* replay session: error
    rlog             \* history: the step calls of the replayed body, with their results

\* the options of the session and of the runtime, and what lies outside the
\* session: no step of a session changes them
keyVars == <<kx, ky, kkeys>>

trailVars == <<tsteps, truns, treplay, tctl, tran, tcomp>>

confVars == <<compensate_on_budget_exceeded, registry, budget_limit, direct, keyVars,
              outer_session,
              trailVars>>

replayVars == <<exported, replay_calls, replay_index, replay_status, replay_error, rlog>>

vars == <<sphase, confVars, run, rows, seq_no,
          executed_steps, total_cost, sess_status, sess_error, comp_i, stack,
          cur_call, last, ncalls, exit_exc, invoked, outcomes, completed,
          current_session, propagated, comp_ran, script, replayVars>>

sessVars == <<sphase, confVars, run, sess_status,
              sess_error, comp_i, exit_exc, current_session, propagated, comp_ran,
              replayVars>>
histVars == <<invoked, outcomes, completed, script>>

\* AgentSession.replay of the session whose scope is open
replay == sphase \in {"replay", "replayed"}

callVars == <<rows, seq_no, executed_steps, total_cost, stack, cur_call, last, ncalls>>

\* ----------------------------------------------------------------- helpers
AllKeys ==
    { compute_idempotency_key(tl, a, ph) :
        tl \in Tools \cup {"ua", "ub"}, a \in Args, ph \in {"forward", "compensation"} }

Depth(t) == Len(stack[t])
Top(t) == stack[t][Len(stack[t])]
SetTop(t, f) == [stack EXCEPT ![t] = [@ EXCEPT ![Len(@)] = f]]
Pop(s) == SubSeq(s, 1, Len(s) - 1)

NewFrame(tool, arg, phase, comp) ==
    [tool |-> tool, arg |-> arg, phase |-> phase, comp |-> comp,
     pc |-> "reserve", key |-> NONE, next |-> 0, id |-> 0, token |-> 0,
     out |-> NONE, usage |-> {}, exc |-> NONE, inner |-> NONE, seen |-> 0,
     polls |-> 0]

\* a check that also fires when the cost has just reached the limit
budget_exceeded_at_limit(cost) ==
    IF budget_limit = {} THEN FALSE ELSE \E b \in budget_limit : cost >= b

\* _is_budget_exceeded (lines 526-529)
is_budget_exceeded(cost) ==
    IF budget_limit = {} THEN FALSE ELSE \E b \in budget_limit : cost > b

\* the row of the UNIQUE (run_id, tool_name, idempotency_key, phase) tuple
RowsOf(tool, key, phase) ==
    { i \in 1..Len(rows) :
        /\ rows[i].run_id = RunId
        /\ rows[i].tool = tool
        /\ rows[i].key = key
        /\ rows[i].phase = phase }

\* a finally clause that leaves the ambient call id as the call set it
call_id_left_set(f, cur) == cur

\* the finally of lines 442-443, reached only by a call that claimed (f.id
\* is set): _current_tool_call_id.reset(token) gives back the value that
\* set_current_tool_call_id replaced; a call that ended before line 390
\* never touched the ambient id
reset_current_tool_call_id(f, cur) == IF f.id # 0 THEN f.token ELSE cur

\* the end of one execute_tool_call: the frame is popped, the ambient call id
\* is restored (finally: reset_current_tool_call_id), the caller sees res
Finish(t, f, res) ==
    /\ stack' = [stack EXCEPT ![t] =
                   IF Len(@) > 1
                   THEN [Pop(@) EXCEPT ![Len(@) - 1].inner =
                           IF res.kind = "raise" THEN res.exc ELSE @]
                   ELSE Pop(@)]
    /\ cur_call' = [cur_call EXCEPT ![t] = reset_current_tool_call_id(f, @)]
    /\ last' = [last EXCEPT ![t] = IF Depth(t) = 1 THEN res.exc ELSE @]
    /\ outcomes' = outcomes \cup
          {[key |-> f.key, won |-> f.id # 0, kind |-> res.kind,
            val |-> res.val, exc |-> res.exc]}
    /\ completed' = IF res.kind = "ret" /\ f.id # 0 /\ f.phase = "forward"
                    THEN Append(completed, <<f.tool, f.arg>>)
                    ELSE completed
    /\ script' = IF Depth(t) = 1 /\ f.phase = "forward"
                 THEN Append(script, [thread |-> t, tool |-> f.tool, arg |-> f.arg,
                                      kind |-> res.kind, val |-> res.val, exc |-> res.exc])
                 ELSE script

Ret(v) == [kind |-> "ret", val |-> v, exc |-> NONE]
Raise(e) == [kind |-> "raise", val |-> NONE, exc |-> e]

\* -------------------------------------------------------------------- Init
\* ------------------------------------------------------ AgentTrail, basics
\* the AgentTrail objects, each with its own run, on one database file and
\* with the same workflow name
Trails == {"t1", "t2"}
TrailSteps == {"a", "b", "c"}
TrailArgs == {1}

\* AgentTrail._comp after auto_register_global_compensators: the steps that
\* have a compensator
TrailComp == {"a", "b"}

\* idem_key(self.workflow, step_name, args, kwargs) for the one argument arg;
\* on integers the canonical JSON is injective
trail_idem(name, arg) == <<"default", name, arg>>

\* the keys of the forward steps
TrailKeys == { trail_idem(n, a) : n \in TrailSteps, a \in TrailArgs }

\* a trail before run() is called
IdleCtl ==
    [pc |-> "idle", mode |-> "forward", name |-> NONE, arg |-> 0, prior |-> 0,
     sid |-> 0, calls |-> 0, last |-> NONE, wexc |-> NONE, walk |-> <<>>,
     leaving |-> NONE, result |-> NONE]

\* AgentTrail.__init__ (lines 75-91) on an empty database
TrailIdle ==
    /\ tsteps = <<>>
    /\ truns = [r \in Trails |-> NONE]
    /\ tctl = [r \in Trails |-> IdleCtl]
    /\ tran = [k \in TrailKeys |-> 0]
    /\ tcomp = [r \in Trails |-> <<>>]

\* a process that uses agent_relay alone: no AgentTrail object is made
NoTrail ==
    /\ tsteps = <<>>
    /\ truns = <<>>
    /\ treplay = <<>>
    /\ tctl = <<>>
    /\ tran = <<>>
    /\ tcomp = <<>>

\* a session object as constructed (lines 156-184), before __enter__
SessionState ==
    /\ sphase = "init"
    /\ direct = [t \in Threads |-> 0]
    /\ run = NONE
    /\ rows = <<>>
    /\ seq_no = 0
    /\ executed_steps = <<>>
    /\ total_cost = 0
    /\ sess_status = "pending"
    /\ sess_error = NONE
    /\ comp_i = 0
    /\ exit_exc = NONE
    /\ stack = [t \in Threads |-> <<>>]
    /\ cur_call = [t \in Threads |-> 0]
    /\ last = [t \in Threads |-> NONE]
    /\ ncalls = 0
    /\ invoked = [k \in AllKeys |-> 0]
    /\ outcomes = {}
    /\ completed = <<>>
    /\ propagated = NONE
    /\ comp_ran = {}
    /\ script = <<>>
    /\ exported = NONE
    /\ replay_calls = <<>>
    /\ replay_index = 0
    /\ replay_status = "pending"
    /\ replay_error = NONE
    /\ rlog = <<>>

\* the session is constructed where no session is ambient
SessionInit ==
    /\ SessionState
    /\ outer_session = NONE
    /\ current_session = NONE

Init ==
    /\ SessionInit
    /\ compensate_on_budget_exceeded \in BOOLEAN
    /\ registry \in {{"ua", "ub"}, {"ua"}}
    /\ budget_limit = {1}
    /\ kx = PyInt("1")
    /\ ky = PyInt("1")
    /\ kkeys = <<>>
    /\ NoTrail

\* AgentSession.__enter__ (non-replay): insert the run row with status pending
Enter ==
    /\ sphase = "init"
    /\ sphase' = "open"
    /\ run' = [id |-> RunId, status |-> sess_status, output |-> NULL, error |-> NONE,
                total_cost |-> total_cost]
    /\ current_session' = "S"
    /\ UNCHANGED <<confVars, sess_status, sess_error,
                   comp_i, exit_exc, propagated, comp_ran, replayVars, callVars, histVars>>

\* thread t is unwinding the cancellation: a BaseException goes through
\* every handler of the user code up to __exit__
Cancelling(t) ==
    IF Depth(t) > 0 THEN Top(t).inner = "Cancelled" ELSE last[t] = "Cancelled"

\* a check that does not look at the phase
budget_checked_always(phase) == TRUE

\* line 322: "if phase == "forward" and ...": the calls the pre-execution
\* budget check applies to
budget_checked(phase) == phase = "forward"

\* the outcome of a step call of the workflow body that raised before a claim
Rejected(t, tool, arg, e) ==
    [thread |-> t, tool |-> tool, arg |-> arg, kind |-> "raise", val |-> NONE, exc |-> e]

\* execute_tool_call, entry up to the pre-execution budget check (316-325):
\* called by the workflow body, by the worker thread it started, or from
\* inside a user function that runs on the thread of the body
enter_call(t, tool, arg, comp) ==
    /\ sphase = "open"
    /\ ~Cancelling(t)
    /\ \/ Depth(t) = 0
       \/ /\ Depth(t) \in 1..(MaxDepth - 1)
          /\ t = "m"
          /\ Top(t).pc = "func"
          /\ Top(t).phase = "forward"
    /\ ncalls' = ncalls + 1
    /\ IF budget_checked("forward") /\ is_budget_exceeded(total_cost)
       THEN /\ IF Depth(t) = 0
               THEN /\ last' = [last EXCEPT ![t] = "BudgetExceeded"]
                    /\ stack' = stack
                    /\ script' = Append(script, Rejected(t, tool, arg, "BudgetExceeded"))
               ELSE /\ stack' = SetTop(t, [Top(t) EXCEPT !.inner = "BudgetExceeded"])
                    /\ last' = last
                    /\ script' = script
       ELSE /\ stack' = [stack EXCEPT ![t] =
                           Append(@, NewFrame(tool, arg, "forward", comp))]
            /\ last' = last
            /\ script' = script
    /\ UNCHANGED <<sessVars, rows, seq_no, executed_steps, total_cost, cur_call,
                   invoked, outcomes, completed>>

\* execute_tool_call, for one of the MaxCalls calls the session makes
execute_tool_call(t, tool, arg, comp) ==
    /\ ncalls < MaxCalls
    /\ enter_call(t, tool, arg, comp)

\* a step call as the workflow body writes it: execute_tool_call with
\* compensation_tool_name taken from AgentRuntime.compensations
Call(t, tool, arg) == execute_tool_call(t, tool, arg, compensations(tool))

\* lines 327-331: the key, and next_seq_no = self.seq_no + 1 under _seq_lock
Reserve(t) ==
    /\ Depth(t) > 0
    /\ Top(t).pc = "reserve"
    /\ LET f == Top(t) IN
       stack' = SetTop(t, [f EXCEPT !.pc = "claim",
                                    !.key = compute_idempotency_key(f.tool, f.arg, f.phase),
                                    !.next = seq_no + 1])
    /\ UNCHANGED <<sessVars, rows, seq_no, executed_steps, total_cost, cur_call,
                   last, ncalls, histVars>>

\* a constraint that only in-flight rows take part in
unique_pending_only(tool, key, phase) ==
    \E i \in RowsOf(tool, key, phase) : rows[i].status = "pending"

\* a constraint that compensation-phase rows are exempt from
unique_forward_only(tool, key, phase) ==
    phase = "forward" /\ RowsOf(tool, key, phase) # {}

\* a constraint that a failed row no longer takes part in
unique_unless_failed(tool, key, phase) ==
    \E i \in RowsOf(tool, key, phase) : rows[i].status # "error"

\* a table without the constraint
unique_missing(tool, key, phase) == FALSE

\* UNIQUE (run_id, tool_name, idempotency_key, phase): does the INSERT of
\* this tuple raise IntegrityError
unique_violation(tool, key, phase) == RowsOf(tool, key, phase) # {}

\* the reserved number is kept although the claim was lost
seq_kept_on_loss(cur, next) == next

\* lines 373-378: "Only advance sequence if we actually claimed": what
\* self.seq_no is after the IntegrityError path
seq_after_loss(cur, next) == cur

\* the ambient call id is not consulted
parent_explicit_only(explicit, ambient) == explicit

\* line 336: parent_tool_call_id or get_current_tool_call_id() (0: None)
parent_of(explicit, ambient) == IF explicit # 0 THEN explicit ELSE ambient

\* lines 333-372 and 376-378: INSERT of the pending row; the UNIQUE
\* constraint turns a second insert of the tuple into IntegrityError
Claim(t) ==
    /\ Depth(t) > 0
    /\ Top(t).pc = "claim"
    /\ LET f == Top(t) IN
       IF ~unique_violation(f.tool, f.key, f.phase)
       THEN /\ seq_no' = seq_no
            /\ rows' = Append(rows,
                  [id |-> Len(rows) + 1, run_id |-> RunId, seq_no |-> f.next,
                   tool |-> f.tool, key |-> f.key, phase |-> f.phase,
                   status |-> "pending", parent |-> parent_of(0, cur_call[t]),
                   output |-> NONE, error |-> NONE, cost |-> {}])
            /\ stack' = SetTop(t, [f EXCEPT !.pc = "advance", !.id = Len(rows) + 1])
       ELSE /\ rows' = rows
            /\ seq_no' = seq_after_loss(seq_no, f.next)
            /\ stack' = SetTop(t, [f EXCEPT !.pc = "wait"])
    /\ UNCHANGED <<sessVars, executed_steps, total_cost, cur_call,
                   last, ncalls, histVars>>

\* lines 373-375: self.seq_no = next_seq_no under _seq_lock
Advance(t) ==
    /\ Depth(t) > 0
    /\ Top(t).pc = "advance"
    /\ seq_no' = Top(t).next
    /\ stack' = SetTop(t, [Top(t) EXCEPT !.pc = "push"])
    /\ UNCHANGED <<sessVars, rows, executed_steps, total_cost, cur_call,
                   last, ncalls, histVars>>

\* the condition of line 380 inverted
pushes_step_inverted(phase) == phase # "forward"

\* line 380: which calls push an ExecutedStep once claimed
pushes_step(phase) == phase = "forward"

\* lines 380-392: push the ExecutedStep of a forward call, publish the call
\* id as the ambient current_call_id, call the user function
Push(t) ==
    /\ Depth(t) > 0
    /\ Top(t).pc = "push"
    /\ LET f == Top(t) IN
       /\ executed_steps' =
             IF pushes_step(f.phase)
             THEN Append(executed_steps, [tool |-> f.tool, comp |-> f.comp, arg |-> f.arg])
             ELSE executed_steps
       /\ cur_call' = [cur_call EXCEPT ![t] = f.id]
       /\ stack' = SetTop(t, [f EXCEPT !.pc = "func", !.token = cur_call[t]])
       /\ invoked' = [invoked EXCEPT ![f.key] = @ + 1]
    /\ UNCHANGED <<sessVars, rows, seq_no, total_cost, last, ncalls,
                   outcomes, completed, script>>

\* lines 392-425: the user function returns, the usage parser reads the
\* output, UPDATE ... SET status = 'success'; without usage the call returns
FuncReturn(t, u) ==
    /\ Depth(t) > 0
    /\ Top(t).pc = "func"
    /\ ~Cancelling(t)
    /\ u \in Usages(Top(t).tool)
    /\ LET f == [Top(t) EXCEPT !.out = FuncOutput(Top(t).tool, Top(t).arg), !.usage = u] IN
       /\ rows' = [rows EXCEPT ![f.id] =
                     [@ EXCEPT !.status = "success",
                               !.output = json_dumps(serialize_json(f.out)),
                               !.cost = f.usage]]
       /\ IF f.usage # {}
          THEN /\ stack' = SetTop(t, [f EXCEPT !.pc = "acct"])
               /\ UNCHANGED <<cur_call, last, outcomes, completed, script>>
          ELSE Finish(t, f, Ret(f.out))
    /\ UNCHANGED <<sessVars, seq_no, executed_steps, total_cost, ncalls, invoked>>

\* the handler of lines 426-443: UPDATE ... SET status = 'error', re-raise;
\* what "except Exception" does not catch leaves through the finally only
except_handler(t, f, e) ==
    /\ rows' = IF is_exception(e)
               THEN [rows EXCEPT ![f.id] = [@ EXCEPT !.status = "error", !.error = e]]
               ELSE rows
    /\ Finish(t, f, Raise(e))

\* what the user function of frame f can raise: an error of its own, the
\* one a nested step call raised into it, or the cancellation of the host,
\* which comes while the workflow does forward work
Raisable(t, f) ==
    IF f.inner = "Cancelled" THEN {"Cancelled"}
    ELSE (IF f.phase = "forward" /\ t \in Cancellable
          THEN FuncErrors ELSE FuncErrors \ {"Cancelled"})
         \cup ({f.inner} \ {NONE})

\* line 392: the user function raises; lines 426-443 record it and re-raise
FuncRaise(t, e) ==
    /\ Depth(t) > 0
    /\ Top(t).pc = "func"
    /\ e \in Raisable(t, Top(t))
    /\ except_handler(t, Top(t), e)
    /\ UNCHANGED <<sessVars, seq_no, executed_steps, total_cost, ncalls, invoked>>

\* _record_usage_totals, line 520, right-hand side: the read of total_cost
RecordUsageRead(t) ==
    /\ Depth(t) > 0
    /\ Top(t).pc = "acct"
    /\ stack' = SetTop(t, [Top(t) EXCEPT !.pc = "acct_w", !.seen = total_cost])
    /\ UNCHANGED <<sessVars, rows, seq_no, executed_steps, total_cost, cur_call,
                   last, ncalls, histVars>>

\* _record_usage_totals, lines 520-524: the store of total_cost and the
\* budget check; BudgetExceeded is caught by the handler at line 426.
\* Costs are whole cents, on which round(..., 6) changes nothing.
RecordUsageWrite(t) ==
    /\ Depth(t) > 0
    /\ Top(t).pc = "acct_w"
    /\ LET f == Top(t)
           c == f.seen + (CHOOSE u \in f.usage : TRUE) IN
       /\ total_cost' = c
       /\ IF is_budget_exceeded(c)
          THEN /\ stack' = SetTop(t, [f EXCEPT !.pc = "upd_err", !.exc = "BudgetExceeded"])
               /\ UNCHANGED <<cur_call, last, outcomes, completed, script>>
          ELSE Finish(t, f, Ret(f.out))
    /\ UNCHANGED <<sessVars, rows, seq_no, executed_steps, ncalls, invoked>>

\* BudgetExceeded raised by _record_usage_totals reaches the handler of
\* lines 426-443
BudgetHandler(t) ==
    /\ Depth(t) > 0
    /\ Top(t).pc = "upd_err"
    /\ except_handler(t, Top(t), Top(t).exc)
    /\ UNCHANGED <<sessVars, seq_no, executed_steps, total_cost, ncalls, invoked>>

\* _wait_for_existing_call: one read of the row; a pending row is polled
\* again after the sleep, or the deadline has passed
WaitForExisting(t, late) ==
    /\ Depth(t) > 0
    /\ Top(t).pc = "wait"
    /\ LET f == Top(t)
           rs == RowsOf(f.tool, f.key, f.phase) IN
       IF rs = {}
       THEN /\ ~late
            /\ Finish(t, f, Raise("RowMissing"))
       ELSE LET row == rows[CHOOSE i \in rs : TRUE] IN
            CASE row.status = "success" ->
                   /\ ~late
                   /\ Finish(t, f, Ret(IF row.output = NONE THEN NONE
                                       ELSE deserialize_json(json_loads(row.output))))
              [] row.status = "error" ->
                   /\ ~late
                   /\ Finish(t, f, Raise("PriorAttemptFailed"))
              [] OTHER ->
                   /\ late
                   /\ Finish(t, f, Raise("Timeout"))
    /\ UNCHANGED <<sessVars, rows, seq_no, executed_steps, total_cost, ncalls,
                   invoked>>

\* the status is left as __enter__ found it
final_status_kept(exc) == "pending"

\* __exit__, lines 232-235: the status of the session
final_status(exc) == IF exc = NONE THEN "success" ELSE "error"

\* the message is the fallback
error_string_unknown(e) == "unknown error"

\* __exit__, line 236: str(exc_value) if exc_value else "unknown error";
\* an exception is named by its message
error_string(e) == IF e # NONE THEN e ELSE "unknown error"

\* what the workflow body passes to set_output and returns: the results of
\* its step calls
WorkflowResult(log) ==
    [i \in 1..Len(log) |-> IF log[i].kind = "ret" THEN log[i].val ELSE NULL]

\* _persist_final_status (lines 252-280): the UPDATE of the run row
persist_final_status(status, output_json, error, cost) ==
    run' = [run EXCEPT !.status = status,
                       !.output = output_json,
                       !.error = error,
                       !.total_cost = cost]

\* an exit that puts back the session that was ambient at enter
ambient_restored(before) == before

\* lines 246-247, "finally: set_current_session(None)": the ambient session
\* after __exit__, whatever was ambient before __enter__
ambient_after_exit(before) == NONE

\* AgentSession.__exit__ with exc_type None (lines 232-233, 245-247): the
\* body returned after its worker threads were joined
BodyReturn ==
    /\ sphase = "open"
    /\ \A t \in Threads : Depth(t) = 0 /\ ~Cancelling(t)
    /\ sess_status' = final_status(NONE)
    /\ persist_final_status(final_status(NONE),
                            json_dumps(serialize_result(WorkflowResult(script))),
                            sess_error, total_cost)
    /\ sphase' = "closed"
    /\ current_session' = ambient_after_exit(outer_session)
    /\ UNCHANGED <<confVars, sess_error, comp_i, exit_exc,
                   propagated, comp_ran, replayVars, callVars, histVars>>

\* the flag is not consulted
compensates_unless_replay(e) == ~replay

\* should_compensate of __exit__ (lines 238-240)
should_compensate(e) ==
    IF e = "BudgetExceeded" /\ ~compensate_on_budget_exceeded THEN FALSE ELSE ~replay

\* AgentSession.__exit__ with an exception e (lines 234-243): the error a
\* step call raised into the body, or an error of the body itself
BodyRaise(e) ==
    /\ sphase = "open"
    /\ \A t \in Threads : Depth(t) = 0
    /\ e \in IF \E t \in Threads : Cancelling(t) THEN {"Cancelled"}
            ELSE {"WorkflowError"} \cup ({last[t] : t \in Threads} \ {NONE})
    /\ sess_status' = final_status(e)
    /\ sess_error' = error_string(e)
    /\ exit_exc' = e
    /\ sphase' = "comp"
    /\ comp_i' = IF should_compensate(e) THEN Len(executed_steps) ELSE 0
    /\ comp_ran' = IF should_compensate(e) THEN comp_ran \cup {"S"} ELSE comp_ran
    /\ UNCHANGED <<confVars, run, current_session,
                   propagated, replayVars, callVars, histVars>>

\* a plausible slip: the stack is walked in push order
forward_steps(i) == executed_steps[Len(executed_steps) - i + 1]

\* reversed(self.executed_steps) (line 557): the frame the iterator yields
\* when i frames are still to be visited
reversed_steps(i) == executed_steps[i]

\* a walk that stops at the first compensator that failed
aborted_by_failure ==
    \E i \in 1..Len(rows) : rows[i].phase = "compensation" /\ rows[i].status = "error"

\* lines 570-572: "except Exception: continue": does an exception of an
\* earlier frame end the walk
walk_aborted == FALSE

\* _run_compensations (lines 556-572), one iteration of the loop over
\* reversed(executed_steps): the compensation call is entered up to its
\* budget check, which compensation-phase calls skip; a missing registry
\* entry or an exception of the call is swallowed
RunCompensation ==
    /\ sphase = "comp"
    /\ Depth("m") = 0
    /\ comp_i > 0
    /\ LET step == reversed_steps(comp_i) IN
       /\ comp_i' = IF walk_aborted THEN 0 ELSE comp_i - 1
       /\ IF /\ ~walk_aborted
             /\ step.comp # NONE
             /\ step.comp \in registry
             /\ ~(budget_checked("compensation") /\ is_budget_exceeded(total_cost))
          THEN stack' = [stack EXCEPT !["m"] =
                           Append(@, NewFrame(step.comp, step.arg, "compensation", NONE))]
          ELSE stack' = stack
    /\ UNCHANGED <<sphase, confVars, run, sess_status,
                   sess_error, exit_exc, current_session, propagated, comp_ran,
                   replayVars, rows, seq_no, executed_steps, total_cost, cur_call,
                   last, ncalls, histVars>>

\* the error of the compensator that raised last takes the place of the
\* error of the body
error_masked_by_compensator(err, raised) == IF raised # NONE THEN raised ELSE err

\* lines 570-572: the except clause of the walk drops what a compensation
\* call raised; self.error stays what __exit__ set at line 236
error_after_walk(err, raised) == err

\* the end of __exit__ on the error path (lines 245-247, 252-280):
\* _persist_final_status, the finally clause, and the exception propagates
\* since __exit__ returns None
PersistError ==
    /\ sphase = "comp"
    /\ Depth("m") = 0
    /\ comp_i = 0
    /\ persist_final_status(sess_status, json_dumps(NULL),
                            error_after_walk(sess_error,
                               IF \E i \in 1..Len(rows) : rows[i].phase = "compensation"
                               THEN last["m"] ELSE NONE),
                            total_cost)
    /\ sphase' = "closed"
    /\ current_session' = ambient_after_exit(outer_session)
    /\ propagated' = exit_exc
    /\ UNCHANGED <<confVars, sess_status, sess_error,
                   comp_i, exit_exc, comp_ran, replayVars, callVars, histVars>>

\* ------------------------------------------------------------------ replay
\* ORDER BY seq_no ASC over the rows of the run: the orders the store may
\* return, rows of equal seq_no in either order
RECURSIVE OrderedBySeq(_)
OrderedBySeq(S) ==
    IF S = {} THEN {<<>>}
    ELSE UNION { { <<rows[i]>> \o q : q \in OrderedBySeq(S \ {i}) } :
                 i \in { j \in S : \A k \in S : rows[j].seq_no <= rows[k].seq_no } }

\* export_run (lines 113-141): the run row and the call rows of the run
export_run == [run |-> run, tool_calls |-> rows]

\* replay_run (107-108) and __enter__ of a replay session (187-195) on the
\* run that has ended: nothing is inserted, _load_replay_calls reads the
\* recorded calls; the export of the run is taken first. The body that is
\* replayed is one that issued its step calls from the thread of the scope.
ReplayEnter ==
    /\ sphase = "closed"
    /\ \A i \in 1..Len(script) : script[i].thread = "m"
    /\ sphase' = "replay"
    /\ exported' = export_run
    /\ replay_calls' \in OrderedBySeq(1..Len(rows))
    /\ current_session' = "P"
    /\ UNCHANGED <<confVars, run, sess_status, sess_error,
                   comp_i, exit_exc, propagated, comp_ran, replay_index, replay_status,
                   replay_error, rlog, callVars, histVars>>

\* the test is skipped
defers_never(rp) == FALSE

\* line 319: "if self.replay": the call is handed to _replay_step
defers_to_replay(rp) == rp

\* line 551: isinstance(out, (dict, list, str, int, float, bool)): the values
\* _replay_step takes as already decoded; output_json read back from a TEXT
\* or JSON column is a str, the text that json.dumps wrote
is_decoded(out) == out[1] \in {"json", "dict", "list", "str"}

\* the recorded output as _replay_step returns it (lines 546-554)
replay_output(out) ==
    IF out = NONE THEN NONE
    ELSE IF is_decoded(out) THEN deserialize_json(out)
    ELSE deserialize_json(json_loads(out))

\* every recorded status is replayed
status_any(status) == TRUE

\* line 543: "if record.get("status") != "success": raise"
status_replayable(status) == status = "success"

\* the cursor is left where it is
cursor_stuck(index, len) == index

\* lines 532-536: the cursor after a call: "self._replay_index += 1" once the
\* record is read, which the exhausted call never reaches
cursor_after(index, len) == IF index >= len THEN index ELSE index + 1

\* _replay_step (lines 531-554): the result of the call at the cursor
replay_step(tool, phase) ==
    IF replay_index >= Len(replay_calls)
    THEN Raise("ReplayExhausted")
    ELSE LET record == replay_calls[replay_index + 1] IN
         IF record.tool # tool \/ record.phase # phase THEN Raise("ReplayMismatch")
         ELSE IF ~status_replayable(record.status) THEN Raise("ReplayNotSuccess")
         ELSE Ret(replay_output(record.output))

\* the body of the recorded run handled the exception of its k-th step call
Caught(k) ==
    /\ script[k].kind = "raise"
    /\ k < Len(script) \/ exit_exc \in {NONE, "WorkflowError"}

\* the replayed body is the body of the recorded run: where its last step
\* call ended as in the recorded run it goes on as it did then
GoesOn ==
    IF Len(rlog) = 0 THEN TRUE
    ELSE IF rlog[Len(rlog)].kind = "ret" THEN TRUE
    ELSE IF script[Len(rlog)].kind = "ret" THEN TRUE
    ELSE Caught(Len(rlog))

\* execute_tool_call in a replay session (lines 316-320): a step call of the
\* replayed body, which issues the step calls the body of the recorded run
\* issued; the user function is not called, no row is written
ReplayCall(tool, arg) ==
    /\ sphase = "replay"
    /\ GoesOn
    /\ Len(rlog) < MaxCalls
    /\ Len(rlog) < Len(script)
    /\ tool = script[Len(rlog) + 1].tool
    /\ arg = script[Len(rlog) + 1].arg
    /\ Depth("m") = 0
    /\ IF defers_to_replay(replay)
       THEN LET res == replay_step(tool, "forward") IN
            /\ replay_index' = cursor_after(replay_index, Len(replay_calls))
            /\ rlog' = Append(rlog, [thread |-> "m", tool |-> tool, arg |-> arg,
                                     kind |-> res.kind, val |-> res.val, exc |-> res.exc])
            /\ stack' = stack
       ELSE /\ stack' = [stack EXCEPT !["m"] =
                           Append(@, NewFrame(tool, arg, "forward", compensations(tool)))]
            /\ rlog' = Append(rlog, [thread |-> "m", tool |-> tool, arg |-> arg,
                                     kind |-> "ret", val |-> NONE, exc |-> NONE])
            /\ replay_index' = replay_index
    /\ UNCHANGED <<sphase, confVars, run, sess_status,
                   sess_error, comp_i, exit_exc, current_session, propagated, comp_ran,
                   exported, replay_calls, replay_status, replay_error,
                   rows, seq_no, executed_steps, total_cost, cur_call, last, ncalls,
                   histVars>>

\* replay_run, lines 109-111, and __exit__ of the replay session with
\* exc_type None: set_output(result), then _persist_final_status on run_id,
\* which is replay_run_id; the totals of the replay session are zero. A body
\* that raised an error of its own in the recorded run raises it again when
\* its step calls end as they did then.
ReplayReturn ==
    /\ sphase = "replay"
    /\ Depth("m") = 0
    /\ Len(rlog) = Len(script)
    /\ GoesOn
    /\ ~(/\ exit_exc = "WorkflowError"
         /\ \A i \in 1..Len(rlog) : rlog[i].kind = script[i].kind)
    /\ replay_status' = final_status(NONE)
    /\ persist_final_status(final_status(NONE),
                            json_dumps(serialize_result(WorkflowResult(rlog))),
                            replay_error, 0)
    /\ sphase' = "replayed"
    /\ current_session' = ambient_after_exit(outer_session)
    /\ UNCHANGED <<confVars, sess_status, sess_error,
                   comp_i, exit_exc, propagated, comp_ran, exported, replay_calls,
                   replay_index, replay_error, rlog, callVars, histVars>>

\* __exit__ of the replay session with an exception e: the error the last
\* replayed step call raised, or the error the body itself raised after its
\* calls in the recorded run; replay never compensates
ReplayRaise(e) ==
    /\ sphase = "replay"
    /\ Depth("m") = 0
    /\ IF Len(rlog) > 0 /\ e # "WorkflowError"
       THEN /\ rlog[Len(rlog)].kind = "raise"
            /\ ~Caught(Len(rlog))
            /\ e = rlog[Len(rlog)].exc
       ELSE /\ Len(rlog) = Len(script)
            /\ exit_exc = "WorkflowError"
            /\ e = exit_exc
    /\ replay_status' = final_status(e)
    /\ replay_error' = error_string(e)
    /\ comp_ran' = IF should_compensate(e) THEN comp_ran \cup {"P"} ELSE comp_ran
    /\ persist_final_status(final_status(e), json_dumps(NULL), error_string(e), 0)
    /\ sphase' = "replayed"
    /\ current_session' = ambient_after_exit(outer_session)
    /\ propagated' = e
    /\ UNCHANGED <<confVars, sess_status, sess_error,
                   comp_i, exit_exc, exported, replay_calls, replay_index, rlog,
                   callVars, histVars>>

ReplayErrors == {"ReplayExhausted", "ReplayMismatch", "ReplayNotSuccess"}

\* ------------------------------------------------- the step wrapper (tool)
\* get_current_session() as thread t sees it: _current_session is a
\* ContextVar, set by __enter__ in the context of the thread that owns the
\* scope; a thread the body starts begins with an empty context
get_current_session(t) == IF t = "m" THEN current_session ELSE NONE

\* a wrapper that routes whatever get_current_session() returned
passes_through_never(session) == FALSE

\* tooling.py, line 18: "if session is None: return func(*args, **kwargs)"
passes_through(session) == session = NONE

\* tooling.py, line 20: runtime.compensations.get(tool_name) if
\* session.replay_mode else None
compensation_name(tool, replay_mode) ==
    IF replay_mode THEN compensations(tool) ELSE NONE

\* tooling.py, line 19: func(*args, **kwargs) outside any session: on the
\* thread of the scope before the session is entered and after it has
\* exited, on a thread the body started while the scope is open
PassThrough(t, tool, arg) ==
    /\ Depth(t) = 0
    /\ IF t = "m" THEN sphase \in {"init", "closed"} ELSE sphase = "open"
    /\ ncalls' = ncalls + 1
    /\ direct' = [direct EXCEPT ![t] = @ + 1]
    /\ UNCHANGED <<sphase, compensate_on_budget_exceeded, registry, budget_limit, keyVars,
                   outer_session,
                   trailVars, run,
                   sess_status, sess_error, comp_i, exit_exc, current_session,
                   propagated, comp_ran, replayVars, rows, seq_no, executed_steps,
                   total_cost, stack, cur_call, last, histVars>>

\* tooling.py, lines 16-22: the callable that the decorator returns
wrapper(t, tool, arg) ==
    LET session == get_current_session(t) IN
    IF passes_through(session)
    THEN /\ ncalls < MaxCalls
         /\ PassThrough(t, tool, arg)
    ELSE IF session = "P"
    THEN /\ t = "m"
         /\ ReplayCall(tool, arg)
    ELSE execute_tool_call(t, tool, arg, compensation_name(tool, replay))

\* ------------------------------------------- the wait loop, poll by poll
\* the row that a call in wait-for-existing reads is pending
RowPending(t) ==
    LET f == Top(t) IN
    \E i \in RowsOf(f.tool, f.key, f.phase) : rows[i].status = "pending"

\* a loop that never looks at the clock
deadline_never(polls, late) == FALSE

\* line 504: time.time() > deadline, where deadline is the time of entry
\* plus pending_timeout_s (line 473): true at the latest once the sleeps of
\* pending_poll_interval_s add up to the timeout, earlier when the thread
\* was held up (late)
deadline_passed(polls, late) == late \/ polls >= MaxPolls

\* _wait_for_existing_call (lines 472-509), one iteration of "while True":
\* the row is read; success, error and a missing row end the call; a pending
\* row ends it in TimeoutError past the deadline and else is read again
\* after time.sleep(pending_poll_interval_s)
wait_for_existing_call(t, late) ==
    /\ Depth(t) > 0
    /\ Top(t).pc = "wait"
    /\ IF RowPending(t) /\ ~deadline_passed(Top(t).polls, late)
       THEN /\ stack' = SetTop(t, [Top(t) EXCEPT !.polls =
                                     IF @ < MaxPolls THEN @ + 1 ELSE @])
            /\ UNCHANGED <<sessVars, rows, seq_no, executed_steps, total_cost,
                           cur_call, last, ncalls, histVars>>
       ELSE /\ late = RowPending(t)
            /\ WaitForExisting(t, RowPending(t))

\* the calls of a session whose scope stays open, the wait loop poll by poll
WaitNext ==
    \/ Enter
    \/ \E t \in Threads, tool \in Tools, arg \in Args : Call(t, tool, arg)
    \/ \E t \in Threads : Reserve(t)
    \/ \E t \in Threads : Claim(t)
    \/ \E t \in Threads : Advance(t)
    \/ \E t \in Threads : Push(t)
    \/ \E t \in Threads : \E u \in UNION {Usages(tool) : tool \in Tools} : FuncReturn(t, u)
    \/ \E t \in Threads :
          \E e \in FuncErrors \cup {"BudgetExceeded", "PriorAttemptFailed", "Timeout"} :
             FuncRaise(t, e)
    \/ \E t \in Threads : RecordUsageRead(t)
    \/ \E t \in Threads : RecordUsageWrite(t)
    \/ \E t \in Threads : BudgetHandler(t)
    \/ \E t \in Threads, late \in BOOLEAN : wait_for_existing_call(t, late)

\* a thread in the wait loop keeps running: every iteration ends by a
\* return, a raise or a sleep of pending_poll_interval_s; nothing is assumed
\* about the user functions, which may never return
WaitFairness ==
    \A t \in Threads : WF_stack(\E late \in BOOLEAN : wait_for_existing_call(t, late))

WaitSpec == Init /\ [][WaitNext]_vars /\ WaitFairness

\* --------------------------------------------------- the key of a call
\* two step calls that differ in their argument only
KeyInit ==
    /\ SessionInit
    /\ compensate_on_budget_exceeded = TRUE
    /\ registry = {"ua", "ub"}
    /\ budget_limit = {}
    /\ kx \in PyValues(MaxNest)
    /\ ky \in PyValues(MaxNest)
    /\ kkeys = <<>>
    /\ NoTrail

\* the keys both runtimes compute for the two calls
ComputeKeys ==
    /\ kkeys = <<>>
    /\ kkeys' = [relay |-> <<idempotency_key_of("a", "forward", kx),
                              idempotency_key_of("a", "forward", ky)>>,
                  trail |-> <<idem_key("default", "a", kx), idem_key("default", "a", ky)>>,
                  canon |-> <<canonical_json(kx), canonical_json(ky)>>]
    /\ UNCHANGED <<sphase, compensate_on_budget_exceeded, registry, budget_limit, direct,
                   outer_session,
                   kx, ky, trailVars, run, sess_status, sess_error, comp_i, exit_exc,
                   current_session, propagated, comp_ran, replayVars, callVars, histVars>>

KeyNext == ComputeKeys

KeySpec == KeyInit /\ [][KeyNext]_vars

\* ------------------------------------------------------------ AgentTrail
\* what the AgentTrail runtime does not touch
relayVars == <<sphase, compensate_on_budget_exceeded, registry, budget_limit, direct,
               outer_session,
               keyVars, run, sess_status, sess_error, comp_i, exit_exc,
               current_session, propagated, comp_ran, replayVars, callVars, histVars>>

\* two runs of the workflow "default" on one database; the second trail may
\* have been made with replay=True
TrailInit ==
    /\ SessionInit
    /\ compensate_on_budget_exceeded = TRUE
    /\ registry = {"ua", "ub"}
    /\ budget_limit = {}
    /\ kx = PyInt("1")
    /\ ky = PyInt("1")
    /\ kkeys = <<>>
    /\ TrailIdle
    /\ treplay \in {[r \in Trails |-> FALSE], [r \in Trails |-> r = "t2"]}

\* the exceptions a step function or a compensator raises by itself
TrailErrors == {"StepError"}

\* DB.get_step_by_idem (storage.py 167-177): the completed (or compensated)
\* row of the key with the highest attempt, rows of equal attempt in the
\* order the database returns them; 0: None
get_step_by_idem(idem) ==
    LET hits == { i \in 1..Len(tsteps) :
                    /\ tsteps[i].idem = idem
                    /\ tsteps[i].status \in {"completed", "compensated"} }
    IN IF hits = {} THEN {0}
       ELSE { i \in hits : \A j \in hits : tsteps[j].attempt <= tsteps[i].attempt }

\* DB.pending_steps (storage.py 186-192): the completed rows of the run,
\* most recently ended first
RECURSIVE ByEndedDesc(_)
ByEndedDesc(S) ==
    IF S = {} THEN <<>>
    ELSE LET i == CHOOSE j \in S : \A k \in S : tsteps[k].ended <= tsteps[j].ended
         IN <<i>> \o ByEndedDesc(S \ {i})

\* the completed rows of the run, the one that ended first at the head
pending_steps_oldest_first(r) ==
    LET q == ByEndedDesc({ i \in 1..Len(tsteps) :
                             tsteps[i].run_id = r /\ tsteps[i].status = "completed" })
    IN [i \in 1..Len(q) |-> q[Len(q) + 1 - i]]

\* DB.pending_steps (storage.py 186-192)
pending_steps(r) ==
    ByEndedDesc({ i \in 1..Len(tsteps) :
                    tsteps[i].run_id = r /\ tsteps[i].status = "completed" })

\* datetime.utcnow() of an update: later than every ended_at in the table
NowEnded ==
    1 + Len(SelectSeq(tsteps, LAMBDA row : row.ended > 0))

\* AgentTrail.start_run (lines 111-128): the run row, status running
StartRun(r) ==
    /\ tctl[r].pc = "idle"
    /\ truns' = [truns EXCEPT ![r] = "running"]
    /\ tctl' = [tctl EXCEPT ![r].pc = "body"]
    /\ UNCHANGED <<tsteps, treplay, tran, tcomp, relayVars>>

\* _execute_step, lines 173-180: the key, the lookup of a prior completed
\* step, and the cache marker when there is one and the trail is not in
\* replay mode; else the call goes on to the insert
execute_step(r, mode, name, arg, p) ==
    IF p # 0 /\ ~treplay[r]
    THEN [tctl[r] EXCEPT !.last = NONE, !.result = "cached"]
    ELSE [tctl[r] EXCEPT !.pc = "insert", !.mode = mode, !.name = name, !.arg = arg,
                         !.prior = p, !.sid = 0]

\* the step calls the workflow functions of the trails have made
RECURSIVE trail_calls(_)
trail_calls(S) ==
    IF S = {} THEN 0
    ELSE LET r == CHOOSE x \in S : TRUE IN tctl[r].calls + trail_calls(S \ {r})

\* a step call of the workflow function, through wrap() (lines 212-221)
StepCall(r, name, arg) ==
    /\ tctl[r].pc = "body"
    /\ trail_calls(Trails) < MaxCalls
    /\ \E p \in get_step_by_idem(trail_idem(name, arg)) :
          tctl' = [tctl EXCEPT ![r] =
                     [execute_step(r, "forward", name, arg, p) EXCEPT !.calls = @ + 1]]
    /\ UNCHANGED <<tsteps, truns, treplay, tran, tcomp, relayVars>>

\* the caller of _execute_step gets the exception e: the workflow function,
\* or compensate(), whose handler (lines 255-260) logs and re-raises
step_raised(c, e) ==
    IF c.mode = "forward"
    THEN [c EXCEPT !.pc = "body", !.last = e, !.result = NONE]
    ELSE [c EXCEPT !.pc = "end", !.leaving = e]

\* the caller of _execute_step gets its result: the workflow function goes
\* on, compensate() goes to the next step of its list
step_returned(c, res) ==
    IF c.mode = "forward"
    THEN [c EXCEPT !.pc = "body", !.last = NONE, !.result = res]
    ELSE [c EXCEPT !.pc = "compensate", !.walk = Tail(@)]

\* UNIQUE(run_id, name, attempt) of the steps table (storage.py 46)
trail_unique_violation(r, name, attempt) ==
    \E i \in 1..Len(tsteps) :
        tsteps[i].run_id = r /\ tsteps[i].name = name /\ tsteps[i].attempt = attempt

\* _execute_step, lines 182-186: the new attempt is inserted with status
\* started; the insert is outside the try, sqlite3.IntegrityError goes to
\* the caller
InsertStep(r) ==
    /\ tctl[r].pc = "insert"
    /\ LET c == tctl[r]
           attempt == IF c.prior = 0 THEN 1 ELSE tsteps[c.prior].attempt + 1
       IN IF trail_unique_violation(r, c.name, attempt)
          THEN /\ tctl' = [tctl EXCEPT ![r] = step_raised(c, "IntegrityError")]
               /\ tsteps' = tsteps
          ELSE /\ tsteps' = Append(tsteps,
                     [step_id |-> Len(tsteps) + 1, run_id |-> r, name |-> c.name,
                      attempt |-> attempt, status |-> "started",
                      idem |-> trail_idem(c.name, c.arg), ended |-> 0])
               /\ tctl' = [tctl EXCEPT ![r] = [c EXCEPT !.pc = "fn", !.sid = Len(tsteps) + 1]]
    /\ UNCHANGED <<truns, treplay, tran, tcomp, relayVars>>

\* _execute_step, lines 193-203: the function returns (in replay mode with
\* a prior step it is not called, the replay marker is the result) and the
\* row is updated to completed
StepReturn(r) ==
    /\ tctl[r].pc = "fn"
    /\ LET c == tctl[r]
           called == ~(treplay[r] /\ c.prior # 0)
       IN /\ tsteps' = [tsteps EXCEPT ![c.sid] =
                          [@ EXCEPT !.status = "completed", !.ended = NowEnded]]
          /\ tran' = IF called /\ c.mode = "forward"
                      THEN [tran EXCEPT ![trail_idem(c.name, c.arg)] = @ + 1]
                      ELSE tran
          /\ tcomp' = IF c.mode = "compensation"
                       THEN [tcomp EXCEPT ![r] = Append(@, c.name)]
                       ELSE tcomp
          /\ tctl' = [tctl EXCEPT ![r] =
                        step_returned(c, IF called THEN "output" ELSE "replayed")]
    /\ UNCHANGED <<truns, treplay, relayVars>>

\* _execute_step, lines 204-209: the function raises, the row is updated to
\* failed, the exception is re-raised
StepRaise(r, e) ==
    /\ tctl[r].pc = "fn"
    /\ ~(treplay[r] /\ tctl[r].prior # 0)
    /\ LET c == tctl[r] IN
       /\ tsteps' = [tsteps EXCEPT ![c.sid] =
                       [@ EXCEPT !.status = "failed", !.ended = NowEnded]]
       /\ tcomp' = IF c.mode = "compensation"
                    THEN [tcomp EXCEPT ![r] = Append(@, c.name)]
                    ELSE tcomp
       /\ tctl' = [tctl EXCEPT ![r] = step_raised(c, e)]
    /\ UNCHANGED <<truns, treplay, tran, relayVars>>

\* run(), lines 142-145: the workflow function returns, end_run("completed")
WorkflowReturn(r) ==
    /\ tctl[r].pc = "body"
    /\ truns' = [truns EXCEPT ![r] = "completed"]
    /\ tctl' = [tctl EXCEPT ![r] = [@ EXCEPT !.pc = "done", !.result = "returned"]]
    /\ UNCHANGED <<tsteps, treplay, tran, tcomp, relayVars>>

\* run(), line 146: "except Exception": is e caught by it
trail_is_exception(e) == e # "Cancelled"

\* run(), lines 146-148, and compensate(), lines 244-246: the workflow
\* function raises an error of its own, the exception of its last step
\* call, or the cancellation of the host; what "except Exception" catches
\* starts compensate(), which reads the completed steps of the run
WorkflowRaise(r, e) ==
    /\ tctl[r].pc = "body"
    /\ e \in {"WorkflowError", "Cancelled"} \cup ({tctl[r].last} \ {NONE})
    /\ tctl' = [tctl EXCEPT ![r] =
                  IF trail_is_exception(e)
                  THEN [@ EXCEPT !.pc = "compensate", !.wexc = e, !.leaving = e,
                                 !.walk = pending_steps(r)]
                  ELSE [@ EXCEPT !.pc = "done", !.wexc = e, !.leaving = e]]
    /\ UNCHANGED <<tsteps, truns, treplay, tran, tcomp, relayVars>>

\* compensate(), lines 246-260, one iteration of the loop over the steps:
\* a step with a registered compensator gets its compensator executed as
\* the step "compensate_<name>" with the kwarg original_step_id; after the
\* last step compensate() returns
CompensateStep(r) ==
    /\ tctl[r].pc = "compensate"
    /\ LET c == tctl[r] IN
       IF c.walk = <<>>
       THEN tctl' = [tctl EXCEPT ![r] = [c EXCEPT !.pc = "end"]]
       ELSE LET s == tsteps[Head(c.walk)] IN
            IF s.name \in TrailComp /\ s.status = "completed"
            THEN \E p \in get_step_by_idem(trail_idem("compensate_" \o s.name, s.step_id)) :
                    tctl' = [tctl EXCEPT ![r] =
                               execute_step(r, "compensation", "compensate_" \o s.name,
                                            s.step_id, p)]
            ELSE tctl' = [tctl EXCEPT ![r] = [c EXCEPT !.walk = Tail(@)]]
    /\ UNCHANGED <<tsteps, truns, treplay, tran, tcomp, relayVars>>

\* run(), lines 149-151: "finally: self.end_run(status_on_error)", then the
\* exception that is in flight leaves run(): the one compensate() raised,
\* else the one of the workflow function by the bare raise
EndRun(r) ==
    /\ tctl[r].pc = "end"
    /\ truns' = [truns EXCEPT ![r] = "failed"]
    /\ tctl' = [tctl EXCEPT ![r].pc = "done"]
    /\ UNCHANGED <<tsteps, treplay, tran, tcomp, relayVars>>

TrailNext ==
    \/ \E r \in Trails : StartRun(r)
    \/ \E r \in Trails, name \in TrailSteps, arg \in TrailArgs : StepCall(r, name, arg)
    \/ \E r \in Trails : InsertStep(r)
    \/ \E r \in Trails : StepReturn(r)
    \/ \E r \in Trails, e \in TrailErrors : StepRaise(r, e)
    \/ \E r \in Trails : WorkflowReturn(r)
    \/ \E r \in Trails, e \in {"WorkflowError", "Cancelled", "IntegrityError"} \cup TrailErrors :
          WorkflowRaise(r, e)
    \/ \E r \in Trails : CompensateStep(r)
    \/ \E r \in Trails : EndRun(r)

TrailSpec == TrailInit /\ [][TrailNext]_vars

\* the workflow and its worker thread call their steps through the wrapper
WrapNext ==
    \/ Enter
    \/ \E t \in Threads, tool \in Tools, arg \in Args : wrapper(t, tool, arg)
    \/ \E t \in Threads : Reserve(t)
    \/ \E t \in Threads : Claim(t)
    \/ \E t \in Threads : Advance(t)
    \/ \E t \in Threads : Push(t)
    \/ \E t \in Threads : \E u \in UNION {Usages(tool) : tool \in Tools} : FuncReturn(t, u)
    \/ \E t \in Threads :
          \E e \in FuncErrors \cup {"BudgetExceeded", "PriorAttemptFailed", "Timeout"} :
             FuncRaise(t, e)
    \/ \E t \in Threads : RecordUsageRead(t)
    \/ \E t \in Threads : RecordUsageWrite(t)
    \/ \E t \in Threads : BudgetHandler(t)
    \/ \E t \in Threads, late \in BOOLEAN : WaitForExisting(t, late)
    \/ BodyReturn
    \/ \E e \in {"WorkflowError", "BudgetExceeded", "PriorAttemptFailed", "Timeout"}
                 \cup FuncErrors :
          BodyRaise(e)
    \/ RunCompensation
    \/ PersistError
    \/ ReplayEnter
    \/ ReplayReturn
    \/ \E e \in {"WorkflowError"} \cup ReplayErrors : ReplayRaise(e)

WrapSpec == Init /\ [][WrapNext]_vars

\* "with agent_session(...)" written inside the scope of another session,
\* which is the ambient session when __enter__ runs
OuterInit ==
    /\ SessionState
    /\ outer_session = "O"
    /\ current_session = "O"
    /\ compensate_on_budget_exceeded = TRUE
    /\ registry = {"ua", "ub"}
    /\ budget_limit = {1}
    /\ kx = PyInt("1")
    /\ ky = PyInt("1")
    /\ kkeys = <<>>
    /\ NoTrail

OuterSpec == OuterInit /\ [][WrapNext]_vars

Next ==
    \/ Enter
    \/ \E t \in Threads, tool \in Tools, arg \in Args : Call(t, tool, arg)
    \/ \E t \in Threads : Reserve(t)
    \/ \E t \in Threads : Claim(t)
    \/ \E t \in Threads : Advance(t)
    \/ \E t \in Threads : Push(t)
    \/ \E t \in Threads : \E u \in UNION {Usages(tool) : tool \in Tools} : FuncReturn(t, u)
    \/ \E t \in Threads :
          \E e \in FuncErrors \cup {"BudgetExceeded", "PriorAttemptFailed", "Timeout"} :
             FuncRaise(t, e)
    \/ \E t \in Threads : RecordUsageRead(t)
    \/ \E t \in Threads : RecordUsageWrite(t)
    \/ \E t \in Threads : BudgetHandler(t)
    \/ \E t \in Threads, late \in BOOLEAN : WaitForExisting(t, late)
    \/ BodyReturn
    \/ \E e \in {"WorkflowError", "BudgetExceeded", "PriorAttemptFailed", "Timeout"}
                 \cup FuncErrors :
          BodyRaise(e)
    \/ RunCompensation
    \/ PersistError
    \/ ReplayEnter
    \/ \E tool \in Tools, arg \in Args : ReplayCall(tool, arg)
    \/ ReplayReturn
    \/ \E e \in {"WorkflowError"} \cup ReplayErrors : ReplayRaise(e)

Spec == Init /\ [][Next]_vars

\* a session that compensates on every failure with both compensators
\* registered, and the replay of its run
ReplayInit ==
    /\ SessionInit
    /\ compensate_on_budget_exceeded = TRUE
    /\ registry = {"ua", "ub"}
    /\ budget_limit = {1}
    /\ kx = PyInt("1")
    /\ ky = PyInt("1")
    /\ kkeys = <<>>
    /\ NoTrail

ReplaySpec == ReplayInit /\ [][Next]_vars

\* --------------------------------------- sessions with and without a budget
\* agent_session(budget_limit=None), the default, next to a session with the
\* limit of one cent
BudgetInit ==
    /\ SessionInit
    /\ compensate_on_budget_exceeded = TRUE
    /\ registry = {"ua", "ub"}
    /\ budget_limit \in {{}, {1}}
    /\ kx = PyInt("1")
    /\ ky = PyInt("1")
    /\ kkeys = <<>>
    /\ NoTrail

\* the forward session up to the end of __exit__
BudgetNext ==
    \/ Enter
    \/ \E t \in Threads, tool \in Tools, arg \in Args : Call(t, tool, arg)
    \/ \E t \in Threads : Reserve(t)
    \/ \E t \in Threads : Claim(t)
    \/ \E t \in Threads : Advance(t)
    \/ \E t \in Threads : Push(t)
    \/ \E t \in Threads : \E u \in UNION {Usages(tool) : tool \in Tools} : FuncReturn(t, u)
    \/ \E t \in Threads :
          \E e \in FuncErrors \cup {"BudgetExceeded", "PriorAttemptFailed", "Timeout"} :
             FuncRaise(t, e)
    \/ \E t \in Threads : RecordUsageRead(t)
    \/ \E t \in Threads : RecordUsageWrite(t)
    \/ \E t \in Threads : BudgetHandler(t)
    \/ \E t \in Threads, late \in BOOLEAN : WaitForExisting(t, late)
    \/ BodyReturn
    \/ \E e \in {"WorkflowError", "BudgetExceeded", "PriorAttemptFailed", "Timeout"}
                 \cup FuncErrors :
          BodyRaise(e)
    \/ RunCompensation
    \/ PersistError

BudgetSpec == BudgetInit /\ [][BudgetNext]_vars

\* ------------------------------------- a step that calls itself
\* a step call of the workflow body or of its worker thread
TopCall(t, tool, arg) == Depth(t) = 0 /\ Call(t, tool, arg)

\* the user function of the step that is executing calls that same step
\* with the arguments it was called with
SelfCall(t) ==
    /\ Depth(t) > 0
    /\ ncalls <= MaxCalls
    /\ enter_call(t, Top(t).tool, Top(t).arg, compensations(Top(t).tool))

NestNext ==
    \/ Enter
    \/ \E t \in Threads, tool \in Tools, arg \in Args : TopCall(t, tool, arg)
    \/ \E t \in Threads : SelfCall(t)
    \/ \E t \in Threads : Reserve(t)
    \/ \E t \in Threads : Claim(t)
    \/ \E t \in Threads : Advance(t)
    \/ \E t \in Threads : Push(t)
    \/ \E t \in Threads : \E u \in UNION {Usages(tool) : tool \in Tools} : FuncReturn(t, u)
    \/ \E t \in Threads :
          \E e \in FuncErrors \cup {"BudgetExceeded", "PriorAttemptFailed", "Timeout"} :
             FuncRaise(t, e)
    \/ \E t \in Threads : RecordUsageRead(t)
    \/ \E t \in Threads : RecordUsageWrite(t)
    \/ \E t \in Threads : BudgetHandler(t)
    \/ \E t \in Threads, late \in BOOLEAN : wait_for_existing_call(t, late)

\* a thread inside execute_tool_call keeps running up to the call of the
\* user function: the key and the INSERT are computed without blocking, and
\* every iteration of the wait loop ends by a return, a raise or a sleep
NestFairness ==
    \A t \in Threads :
        /\ WF_stack(Reserve(t))
        /\ WF_stack(Claim(t))
        /\ WF_stack(\E late \in BOOLEAN : wait_for_existing_call(t, late))

NestSpec == ReplayInit /\ [][NestNext]_vars /\ NestFairness

\* ------------------------------------- a caller that stops before finalizing
\* the pending row i has no caller any more: the call that inserted it has
\* left execute_tool_call without reaching either UPDATE
Abandoned(i) ==
    /\ rows[i].status = "pending"
    /\ \A t \in Threads : \A d \in 1..Depth(t) : stack[t][d].id # rows[i].id

\* the fingerprint (tool, arg, phase) has an abandoned row in the run
AbandonedBefore(tool, arg, phase) ==
    \E i \in RowsOf(tool, compute_idempotency_key(tool, arg, phase), phase) :
        Abandoned(i)

\* a step call made after the row of its fingerprint was abandoned
LaterCall(t, tool, arg) ==
    /\ AbandonedBefore(tool, arg, "forward")
    /\ ncalls <= MaxCalls
    /\ enter_call(t, tool, arg, compensations(tool))

CrashNext ==
    \/ WaitNext
    \/ \E t \in Threads, tool \in Tools, arg \in Args : LaterCall(t, tool, arg)

CrashSpec == ReplayInit /\ [][CrashNext]_vars /\ NestFairness

\* ------------------------------------- a session driven by one thread
\* the forward session and its compensation walk when every step call is
\* made on the thread of the workflow body
SoloNext ==
    \/ Enter
    \/ \E tool \in Tools, arg \in Args : Call("m", tool, arg)
    \/ Reserve("m")
    \/ Claim("m")
    \/ Advance("m")
    \/ Push("m")
    \/ \E u \in UNION {Usages(tool) : tool \in Tools} : FuncReturn("m", u)
    \/ \E e \in FuncErrors \cup {"BudgetExceeded", "PriorAttemptFailed", "Timeout"} :
          FuncRaise("m", e)
    \/ RecordUsageRead("m")
    \/ RecordUsageWrite("m")
    \/ BudgetHandler("m")
    \/ \E late \in BOOLEAN : WaitForExisting("m", late)
    \/ BodyReturn
    \/ \E e \in {"WorkflowError", "BudgetExceeded", "PriorAttemptFailed", "Timeout"}
                 \cup FuncErrors :
          BodyRaise(e)
    \/ RunCompensation
    \/ PersistError

SoloSpec == Init /\ [][SoloNext]_vars

\* ------------------------------------- steps that share one compensator
\* compensation_tool_name as a workflow passes it whose steps "a" and "b"
\* are both undone by "ua"
shared_compensation(tool) == IF tool \in {"a", "b"} THEN "ua" ELSE NONE

SharedCall(t, tool, arg) == execute_tool_call(t, tool, arg, shared_compensation(tool))

SharedNext ==
    \/ Enter
    \/ \E t \in Threads, tool \in Tools, arg \in Args : SharedCall(t, tool, arg)
    \/ \E t \in Threads : Reserve(t)
    \/ \E t \in Threads : Claim(t)
    \/ \E t \in Threads : Advance(t)
    \/ \E t \in Threads : Push(t)
    \/ \E t \in Threads : \E u \in UNION {Usages(tool) : tool \in Tools} : FuncReturn(t, u)
    \/ \E t \in Threads :
          \E e \in FuncErrors \cup {"BudgetExceeded", "PriorAttemptFailed", "Timeout"} :
             FuncRaise(t, e)
    \/ \E t \in Threads : RecordUsageRead(t)
    \/ \E t \in Threads : RecordUsageWrite(t)
    \/ \E t \in Threads : BudgetHandler(t)
    \/ \E t \in Threads, late \in BOOLEAN : WaitForExisting(t, late)
    \/ BodyReturn
    \/ \E e \in {"WorkflowError", "BudgetExceeded", "PriorAttemptFailed", "Timeout"}
                 \cup FuncErrors :
          BodyRaise(e)
    \/ RunCompensation
    \/ PersistError

SharedSpec == ReplayInit /\ [][SharedNext]_vars

\* ------------------------------------------------------- derived notions
Quiescent == \A t \in Threads : Depth(t) = 0

Frames == UNION { { stack[t][i] : i \in 1..Len(stack[t]) } : t \in Threads }

IsForward(r) == r.phase = "forward"
IsCompensation(r) == r.phase = "compensation"

ForwardRows == { i \in 1..Len(rows) : IsForward(rows[i]) }
CompRows == { i \in 1..Len(rows) : IsCompensation(rows[i]) }

\* the sequence of compensation-phase rows, in the order they were claimed
CompSeq == SelectSeq(rows, IsCompensation)

\* the frames _run_compensations calls a compensator for
HasCompensator(step) == step.comp # NONE /\ step.comp \in registry

Reverse(q) == [i \in 1..Len(q) |-> q[Len(q) - i + 1]]

\* the session ended on the error path and the compensation walk was made
Compensated ==
    /\ sphase = "closed"
    /\ exit_exc # NONE
    /\ should_compensate(exit_exc)

\* the position of a forward step in the order of completion (0: it did not return)
CompletedAt(tool, arg) ==
    IF \E i \in 1..Len(completed) : completed[i] = <<tool, arg>>
    THEN CHOOSE i \in 1..Len(completed) : completed[i] = <<tool, arg>>
    ELSE 0

\* the forward step a compensation row undoes
StepOf(r) == CHOOSE tl \in Tools : compensations(tl) = r.tool

\* --------------------------------------------------------------- claims

\* C1: for any fingerprint (step, key, phase) the user function body is
\* invoked at most once, however many callers call execute_tool_call with it,
\* and exactly once as soon as every caller that passed the budget check
\* has ended.
C1_AtMostOnePerFingerprint ==
    /\ \A k \in AllKeys : invoked[k] <= 1
    /\ Quiescent => \A o \in outcomes : invoked[o.key] = 1

\* C1 witness: two callers of one fingerprint have ended, the one that
\* claimed and one that did not, and the body ran once.
C1_Witness ==
    \E o1, o2 \in outcomes :
        /\ o1.key = o2.key
        /\ o1.won /\ ~o2.won /\ o2.kind = "ret"
        /\ invoked[o1.key] = 1

\* C2 (as claimed): a caller that lost the claim raises if the winner's
\* execute_tool_call raised, so it returns an output only if the winner
\* returned one.
C2_LoserRaisesIfWinnerRaised ==
    \A w, l \in outcomes :
        (w.key = l.key /\ w.won /\ ~l.won /\ w.kind = "raise") => l.kind = "raise"

\* C3: the tool_calls table never holds two rows with the same
\* (run_id, tool_name, idempotency_key, phase); a caller whose tuple is
\* already there inserts nothing and is in wait-for-existing, and every row
\* belongs to the one caller that inserted it.
C3_UniqueFingerprintRow ==
    /\ \A i, j \in 1..Len(rows) :
          (/\ rows[i].run_id = rows[j].run_id
           /\ rows[i].tool = rows[j].tool
           /\ rows[i].key = rows[j].key
           /\ rows[i].phase = rows[j].phase) => i = j
    /\ \A f \in Frames :
          /\ f.pc = "wait" => (f.id = 0 /\ RowsOf(f.tool, f.key, f.phase) # {})
          /\ f.id # 0 => RowsOf(f.tool, f.key, f.phase) = {f.id}
    /\ \A o \in outcomes : ~o.won => Cardinality(RowsOf(o.key[1], o.key, o.key[2])) = 1

\* C3 witness: a second caller of a fingerprint is waiting on the single row.
C3_Witness ==
    \E t \in Threads :
        /\ Depth(t) > 0
        /\ Top(t).pc = "wait"
        /\ Cardinality(RowsOf(Top(t).tool, Top(t).key, Top(t).phase)) = 1

\* C4 (as claimed): the seq_no values of the claimed calls of the run are
\* pairwise distinct and are 1, 2, ..., n in the order of the claims.
C4_SeqNoDistinctGapless ==
    \A i \in 1..Len(rows) : rows[i].seq_no = i

\* C5: a call whose claim insert hits the uniqueness violation changes neither
\* seq_no nor executed_steps nor its ambient current call id, in that step and
\* in every step of its wait-for-existing.
C5_LostClaimFrame ==
    [][ \A t \in Threads :
          (/\ Depth(t) > 0
           /\ stack'[t] # stack[t]
           /\ \/ Top(t).pc = "wait"
              \/ Top(t).pc = "claim" /\ RowsOf(Top(t).tool, Top(t).key, Top(t).phase) # {})
          => (/\ seq_no' = seq_no
              /\ executed_steps' = executed_steps
              /\ cur_call'[t] = cur_call[t]) ]_vars

\* C5 witness: a caller that lost the claim has returned the recorded output
\* and the session still has one claimed call: seq_no 1, one ExecutedStep.
C5_Witness ==
    /\ Quiescent
    /\ \E o \in outcomes : ~o.won /\ o.kind = "ret"
    /\ seq_no = 1
    /\ Len(executed_steps) = 1
    /\ Len(rows) = 1

\* C6 (as claimed): a row is inserted pending, no row is deleted, and a row
\* that is success or error never changes its status again.
C6_StatusChangesOnce ==
    [][ /\ Len(rows') >= Len(rows)
        /\ \A i \in 1..Len(rows) :
              rows[i].status # "pending" => rows'[i].status = rows[i].status
        /\ \A i \in (Len(rows) + 1)..Len(rows') : rows'[i].status = "pending" ]_vars

\* C7 (as claimed): of two compensators called during compensation whose
\* forward steps both completed, the one called first belongs to the step
\* that completed last.
C7_ReverseCompletionOrder ==
    \A i, j \in CompRows :
        LET si == StepOf(rows[i])
            sj == StepOf(rows[j])
        IN (/\ i < j
            /\ CompletedAt(si, rows[i].key[3]) # 0
            /\ CompletedAt(sj, rows[j].key[3]) # 0)
           => CompletedAt(si, rows[i].key[3]) > CompletedAt(sj, rows[j].key[3])

\* C7 (amended): the compensators are called in the exact reverse of the
\* order in which their forward steps were pushed on executed_steps, among
\* the frames whose compensator is registered; after the walk every such
\* frame has been called.
C7_ReversePushOrder ==
    LET walk == SelectSeq(Reverse(executed_steps), HasCompensator) IN
    /\ Len(CompSeq) <= Len(walk)
    /\ \A i \in 1..Len(CompSeq) :
          /\ CompSeq[i].tool = walk[i].comp
          /\ CompSeq[i].key = compute_idempotency_key(walk[i].comp, walk[i].arg, "compensation")
    /\ Compensated => Len(CompSeq) = Len(walk)

\* C7 witness: a step nested in another step, both with a registered
\* compensator, and both compensators were called.
C7_Witness ==
    /\ Compensated
    /\ Len(CompSeq) = 2
    /\ \E i \in ForwardRows : rows[i].parent # 0

C10_NoForwardBodyOverBudget ==
    [][ \A t \in Threads :
          (/\ Depth(t) > 0
           /\ Top(t).pc = "push"
           /\ Top(t).phase = "forward"
           /\ stack'[t] # stack[t])
          => ~is_budget_exceeded(total_cost) ]_vars

\* the key of the compensation call that undoes a forward row
CompKeyOf(r) == compute_idempotency_key(compensations(r.tool), r.key[3], "compensation")

C12_CompensationIff ==
    /\ "P" \notin comp_ran
    /\ sphase \in {"init", "open"} => comp_ran = {}
    /\ sphase \notin {"init", "open"} =>
          ("S" \in comp_ran <=>
              /\ exit_exc # NONE
              /\ ~(exit_exc = "BudgetExceeded" /\ ~compensate_on_budget_exceeded))
    /\ "S" \notin comp_ran =>
          /\ CompRows = {}
          /\ \A k \in AllKeys : k[2] = "compensation" => invoked[k] = 0

\* C12 witness: a budget abort with the flag false ended the session with a
\* compensable step on the stack and no compensation call was made.
C12_Witness ==
    /\ sphase = "closed"
    /\ exit_exc = "BudgetExceeded"
    /\ ~compensate_on_budget_exceeded
    /\ \E n \in 1..Len(executed_steps) : HasCompensator(executed_steps[n])
    /\ CompRows = {}

\* C13: in a replay session no step changes the tool_calls table (no row is
\* inserted or updated) and no user function is invoked, whether the
\* replayed call returns or raises.
C13_ReplayTouchesNothing ==
    [][ (replay \/ replay') => (rows' = rows /\ invoked' = invoked) ]_vars

\* C13 witness: a replay has ended after a call that returned the recorded
\* output and a call that raised; the table is the one that was exported.
C13_Witness ==
    /\ sphase = "replayed"
    /\ \E i, j \in 1..Len(rlog) : rlog[i].kind = "ret" /\ rlog[j].kind = "raise"
    /\ Len(rows) > 0
    /\ rows = exported.tool_calls

\* C14 (as claimed): export_run(R) after replay_run(R, workflow) equals
\* export_run(R) taken before it: the run row (status, output, error, cost
\* total) and every call row.
C14_ReplayLeavesExportUnchanged ==
    sphase = "replayed" => export_run = exported

\* C15 (as claimed): replaying a run that ended in success, all of whose step
\* calls returned, gives every step call of the same workflow the output
\* recorded for it, and the replayed workflow returns as the original did.
C15_ReplayFidelity ==
    (/\ sphase = "replayed"
     /\ exported.run.status = "success"
     /\ \A i \in 1..Len(script) : script[i].kind = "ret") =>
        /\ Len(rlog) = Len(script)
        /\ \A i \in 1..Len(rlog) :
              /\ rlog[i].kind = "ret"
              /\ rlog[i].val = serialize_json(script[i].val)
        /\ replay_status = "success"

\* C16 (as claimed): whenever the execute_tool_call of a claimed call ended
\* by raising, its row is in status error with the string of that exception.
C16_RaisePersistedAsError ==
    \A o \in outcomes :
        (o.won /\ o.kind = "raise") =>
            \E i \in RowsOf(o.key[1], o.key, o.key[2]) :
                rows[i].status = "error" /\ rows[i].error = o.exc

C18_RunStatusMovesOnce ==
    [][ (sphase # "init" /\ run'.status # run.status) =>
            (run.status = "pending" /\ run'.status \in {"success", "error"}) ]_vars

C20_ParentIsInnermostActive ==
    [][ /\ \A t \in Threads :
              (/\ Depth(t) > 0
               /\ Top(t).pc = "claim"
               /\ stack'[t] # stack[t]
               /\ Len(rows') = Len(rows) + 1)
              => rows'[Len(rows')].parent =
                    (IF Depth(t) > 1 THEN stack[t][Depth(t) - 1].id ELSE 0)
        /\ \A i \in 1..Len(rows) : rows'[i].parent = rows[i].parent ]_vars

\* C20 witness: a row claimed inside the user function of a call that is
\* still pending carries that call as parent, next to a row without parent.
C20_Witness ==
    \E i, j \in 1..Len(rows) :
        /\ rows[i].parent = j
        /\ rows[j].parent = 0
        /\ rows[j].status = "pending"
        /\ rows[i].tool # rows[j].tool

\* the frames of thread t whose user function has been entered (line 390 on)
Entered(t) ==
    { i \in 1..Depth(t) : stack[t][i].pc \in {"func", "acct", "acct_w", "upd_err"} }

\* the id of the innermost call of thread t whose user function is
\* executing (0: no step is active on the thread)
InnermostActive(t) ==
    IF Entered(t) = {} THEN 0
    ELSE stack[t][CHOOSE i \in Entered(t) : \A j \in Entered(t) : j <= i].id

storeVars == <<run, rows, seq_no, executed_steps, total_cost, sess_status,
               sess_error, stack, cur_call, current_session, replay_index>>

C23_WrappedStepCompensated ==
    /\ \A n \in 1..Len(executed_steps) :
          executed_steps[n].comp = compensations(executed_steps[n].tool)
    /\ (Compensated /\ exit_exc = "ToolFailure") =>
          /\ \A i \in ForwardRows :
                (rows[i].status = "success" /\ compensations(rows[i].tool) \in registry) =>
                    Cardinality({ j \in CompRows :
                                    rows[j].tool = compensations(rows[i].tool) }) = 1
          /\ script[Len(script)].kind = "raise"

\* thread t is in wait-for-existing
Waiting(t) == Depth(t) > 0 /\ Top(t).pc = "wait"

\* the caller of the innermost call of thread t has no exception of an
\* earlier nested call at hand, so that what this call raises is seen
Observed(t) == Depth(t) = 1 \/ stack[t][Depth(t) - 1].inner = NONE

\* what the call of thread t that ends in this step raised to its caller
\* (NONE: it returned)
RaisedBy(t) ==
    IF Depth(t) = 1 THEN last'[t] ELSE stack'[t][Depth(t) - 1].inner

\* C24: every call that enters wait-for-existing ends: it returns only from
\* a read of the row in status success, raises the prior-attempt error from
\* a read in status error, raises the timeout from a read of a row that is
\* still pending; it never returns while the row is pending and never stays
\* in the loop for ever, also when the row is never finalized.
C24_WaitTerminates ==
    /\ [][ \A t \in Threads :
              (Waiting(t) /\ Observed(t) /\ Len(stack'[t]) < Len(stack[t])) =>
                  LET f == Top(t)
                      row == rows[CHOOSE i \in RowsOf(f.tool, f.key, f.phase) : TRUE]
                  IN /\ RowsOf(f.tool, f.key, f.phase) # {}
                     /\ row.status = "success" => RaisedBy(t) = NONE
                     /\ row.status = "error" => RaisedBy(t) = "PriorAttemptFailed"
                     /\ row.status = "pending" => RaisedBy(t) = "Timeout" ]_vars
    /\ \A t \in Threads : Waiting(t) ~> ~Waiting(t)

\* C24 witness: a call that waited on a row that stayed pending through
\* every poll of the timeout has ended in the timeout.
C24_Witness ==
    /\ \E o \in outcomes : ~o.won /\ o.exc = "Timeout"
    /\ \E i \in 1..Len(rows) : rows[i].status = "pending"
    /\ Depth("m") = 1
    /\ Top("m").pc = "func"

\* repr(v): the value as Python writes it
RECURSIVE repr(_)
repr(v) ==
    CASE v.type = "int" -> v.text
      [] v.type = "str" -> "'" \o v.text \o "'"
      [] v.type = "list" -> "[" \o Join([i \in 1..Len(v.items) |-> repr(v.items[i])], ", ") \o "]"
      [] v.type = "tuple" -> "(" \o Join([i \in 1..Len(v.items) |-> repr(v.items[i])], ", ") \o ",)"
      [] OTHER -> "{" \o Join([i \in 1..(Len(v.items) \div 2) |->
                                 repr(v.items[2 * i - 1]) \o ": " \o repr(v.items[2 * i])], ", ")
                      \o "}"

\* the value with the types of its scalars and sequences erased
RECURSIVE Untyped(_)
Untyped(v) ==
    CASE v.type \in {"int", "str"} -> v.text
      [] v.type \in {"list", "tuple"} ->
           "[" \o Join([i \in 1..Len(v.items) |-> Untyped(v.items[i])], ", ") \o "]"
      [] OTHER -> "{" \o Join([i \in 1..(Len(v.items) \div 2) |->
                                 Untyped(v.items[2 * i - 1]) \o ": " \o Untyped(v.items[2 * i])],
                               ", ") \o "}"

\* the two arguments differ, and only in the type of a value: 1 against "1",
\* as an argument, an element or a mapping key, or a tuple against a list
DiffersOnlyInType == repr(kx) # repr(ky) /\ Untyped(kx) = Untyped(ky)

\* C25 (as claimed): two calls get the same key whenever their canonical
\* tagged forms are identical, and never the same key when a value differs
\* only in type: the integer 1 against the string "1", also as a mapping
\* key, or a tuple against a list.
C25_KeyDistinguishesTypes ==
    kkeys # <<>> =>
        /\ kkeys.canon[1] = kkeys.canon[2] => kkeys.trail[1] = kkeys.trail[2]
        /\ DiffersOnlyInType =>
              /\ kkeys.trail[1] # kkeys.trail[2]
              /\ kkeys.relay[1] # kkeys.relay[2]

\* two completed step rows of one idempotency key
CompletedTwice(k) ==
    \E i, j \in 1..Len(tsteps) :
        /\ i # j
        /\ tsteps[i].idem = k /\ tsteps[j].idem = k
        /\ tsteps[i].status = "completed" /\ tsteps[j].status = "completed"

\* C26: with no trail in replay mode, the body of a step function completes
\* at most once per idempotency key over all the trails of the database, and
\* no second completed row of the key is ever inserted.
C26_StepBodyAtMostOnce ==
    (\A r \in Trails : ~treplay[r]) =>
        \A k \in TrailKeys : tran[k] <= 1 /\ ~CompletedTwice(k)

\* C27: when run() is over, either the workflow function returned, the run
\* is completed and no compensator was invoked, or it raised, the run has
\* the status of end_run(status_on_error) and the exception that left run()
\* is the one the workflow function raised.
C27_RunEndsAfterCompensation ==
    \A r \in Trails :
        tctl[r].pc = "done" =>
            IF tctl[r].wexc = NONE
            THEN truns[r] = "completed" /\ tcomp[r] = <<>> /\ tctl[r].leaving = NONE
            ELSE truns[r] = "failed" /\ tctl[r].leaving = tctl[r].wexc

\* the replay session has been entered
Replaying == sphase \in {"replay", "replayed"}

\* the k-th step call of the replayed body found the k-th recorded call,
\* of its own tool and phase
Found(k) ==
    IF k > Len(replay_calls) THEN FALSE
    ELSE replay_calls[k].tool = rlog[k].tool /\ replay_calls[k].phase = "forward"

\* C28: in a replay session a step call returns exactly when there is a
\* record at the cursor, the record has the tool and phase of the call and
\* its status is success, and it returns that record's output; otherwise it
\* raises: exhausted, mismatch or non-success.
C28_ReplayReturnsIffRecorded ==
    Replaying =>
        \A k \in 1..Len(rlog) :
            IF k > Len(replay_calls)
            THEN rlog[k].kind = "raise" /\ rlog[k].exc = "ReplayExhausted"
            ELSE IF ~Found(k)
            THEN rlog[k].kind = "raise" /\ rlog[k].exc = "ReplayMismatch"
            ELSE IF replay_calls[k].status # "success"
            THEN rlog[k].kind = "raise" /\ rlog[k].exc = "ReplayNotSuccess"
            ELSE rlog[k].kind = "ret" /\ rlog[k].val = replay_calls[k].output

\* a replay in which one call returned a recorded output and another raised
\* on a recorded call that had not succeeded
C28_Witness ==
    /\ Replaying
    /\ \E k \in 1..Len(rlog) :
          rlog[k].kind = "ret" /\ Found(k) /\ replay_calls[k].output # NONE
    /\ \E k \in 1..Len(rlog) : rlog[k].exc = "ReplayNotSuccess"

\* C29: the replay cursor is 0 until the replay starts, stays between 0 and
\* the number of recorded calls, and stands at the number of replayed step
\* calls or, once they are more than the records, at the number of records:
\* one forward for every call that found a record, none for an exhausted
\* call; the records are in ascending seq_no order.
C29_ReplayCursor ==
    /\ replay_index >= 0 /\ replay_index <= Len(replay_calls)
    /\ ~Replaying => replay_index = 0
    /\ Replaying =>
          /\ replay_index = IF Len(rlog) <= Len(replay_calls)
                            THEN Len(rlog) ELSE Len(replay_calls)
          /\ \A i, j \in 1..Len(replay_calls) :
                i < j => replay_calls[i].seq_no <= replay_calls[j].seq_no

\* a replay whose calls read every record, the last of them raising, and one
\* more call that found the list exhausted
C29_Witness ==
    /\ Replaying
    /\ Len(replay_calls) >= 1
    /\ Len(rlog) = Len(replay_calls) + 1
    /\ rlog[Len(replay_calls)].kind = "raise"
    /\ replay_index = Len(replay_calls)

\* a step of the session in which execute_tool_call was entered
CallEntered == ncalls' = ncalls + 1

\* the call that was entered got no frame: it ended at the budget check
CallRejected == CallEntered /\ \A t \in Threads : Len(stack'[t]) = Len(stack[t])

\* BudgetExceeded reached the caller: the workflow body or its worker
\* thread, or the user function the call was made from, which may have
\* handled a BudgetExceeded of an earlier call already
BudgetRaised ==
    IF Len(script') = Len(script) + 1
    THEN /\ script'[Len(script')].kind = "raise"
         /\ script'[Len(script')].exc = "BudgetExceeded"
    ELSE /\ Depth("m") > 0
         /\ stack'["m"][Depth("m")].inner = "BudgetExceeded"
         /\ stack'["w"] = stack["w"]

\* C30: a forward call that the pre-execution budget check rejects raises
\* BudgetExceeded and inserts no row, does not advance seq_no, pushes no
\* ExecutedStep, leaves the totals as they are and does not invoke the user
\* function; and it is rejected only with a budget_limit set and total_cost
\* above it, never with no limit or with total_cost equal to the limit.
C30_BudgetRejectionFrame ==
    [][CallRejected =>
          /\ BudgetRaised
          /\ rows' = rows
          /\ seq_no' = seq_no
          /\ executed_steps' = executed_steps
          /\ total_cost' = total_cost
          /\ invoked' = invoked
          /\ budget_limit # {}
          /\ \A b \in budget_limit : total_cost > b]_vars

\* a session with the limit of one cent whose second call was rejected after
\* the first had cost two cents
C30_Witness ==
    /\ Len(script) = 2
    /\ script[2].kind = "raise" /\ script[2].exc = "BudgetExceeded"
    /\ script[2].tool # script[1].tool
    /\ Len(rows) = 1
    /\ total_cost = 2
    /\ budget_limit = {1}

\* the fingerprints of compensation-phase calls
CompKeys == { k \in AllKeys : k[2] = "compensation" }

\* C31: in one run the body of a compensator is executed at most once per
\* compensator name and arguments, also when several frames of
\* executed_steps carry that compensator and those arguments, and a repeated
\* compensation call ends with what the row of the first one recorded: its
\* output, or "Prior attempt failed" when it had raised.
C31_CompensationIdempotent ==
    /\ \A k \in CompKeys : invoked[k] <= 1
    /\ \A o \in outcomes :
          (o.key \in CompKeys /\ ~o.won) =>
              \E i \in RowsOf(o.key[1], o.key, "compensation") :
                  IF rows[i].status = "success"
                  THEN o.kind = "ret" /\ o.val = json_loads(rows[i].output)
                  ELSE /\ rows[i].status = "error"
                       /\ o.kind = "raise" /\ o.exc = "PriorAttemptFailed"

\* two frames with the same compensator and argument were walked: the
\* compensator ran once and the second call returned the recorded output
C31_Witness ==
    /\ \E n, m \in 1..Len(executed_steps) :
          /\ n # m
          /\ executed_steps[n].comp = "ua" /\ executed_steps[m].comp = "ua"
          /\ executed_steps[n].arg = executed_steps[m].arg
    /\ \E o \in outcomes : o.key \in CompKeys /\ ~o.won /\ o.kind = "ret"
    /\ \E k \in CompKeys : invoked[k] = 1

\* the sum of the total_cost the usage parser reported for the first n call
\* rows of the run; a call served by wait-for-existing has no row of its own
RECURSIVE ReportedCost(_)
ReportedCost(n) ==
    IF n = 0 THEN 0
    ELSE ReportedCost(n - 1)
         + (IF rows[n].cost = {} THEN 0 ELSE CHOOSE c \in rows[n].cost : TRUE)

\* C32: when the session has been finalized, the total_cost written to the
\* run row is the sum of the usage that the calls executed by the session
\* reported, whatever the interleaving of its threads was.
C32_TotalsAreSums ==
    sphase = "closed" =>
        /\ run.total_cost = ReportedCost(Len(rows))
        /\ total_cost = ReportedCost(Len(rows))

\* the step rows that compensate() of run r inserted: each is a compensator
\* that was invoked, and its key holds the id of the step it undoes
CompStepsOf(r) ==
    { i \in 1..Len(tsteps) :
        /\ tsteps[i].run_id = r
        /\ tsteps[i].name \in { "compensate_" \o n : n \in TrailSteps } }

OriginalOf(i) == tsteps[tsteps[i].idem[3]]

\* C33: compensate() invokes a compensator only for a completed step of its
\* own run whose name has a registered compensator, the compensators are
\* invoked in reverse order of completion of their steps, and after a
\* compensator has raised none is invoked any more and its error is what
\* compensate() raises.
C33_CompensateWalk ==
    \A r \in Trails :
        \A i \in CompStepsOf(r) :
            /\ OriginalOf(i).run_id = r
            /\ OriginalOf(i).status = "completed"
            /\ OriginalOf(i).name \in TrailComp
            /\ tsteps[i].name = "compensate_" \o OriginalOf(i).name
            /\ \A j \in CompStepsOf(r) :
                  i < j => /\ OriginalOf(i).ended > OriginalOf(j).ended
                           /\ tsteps[i].status = "completed"
            /\ tsteps[i].status = "failed" =>
                  /\ tctl[r].pc \in {"end", "done"}
                  /\ tctl[r].leaving \in TrailErrors

\* a run that completed two steps with compensators and then failed: the
\* compensator of the later step ran first, the second compensator raised
C33_Witness ==
    \E r \in Trails :
        \E i, j \in CompStepsOf(r) :
            /\ i < j
            /\ tsteps[i].status = "completed"
            /\ tsteps[j].status = "failed"
            /\ tctl[r].pc = "done"

\* the row of the fingerprint of a call is in status error
FailedBefore(tool, arg, phase) ==
    \E i \in RowsOf(tool, compute_idempotency_key(tool, arg, phase), phase) :
        rows[i].status = "error"

\* the call on top of the stack of thread t ends in this step
CallEnds(t) == IF Depth(t) = 0 THEN FALSE ELSE Len(stack'[t]) < Depth(t)

\* a step call of the workflow body is refused at entry in this step
Refused == CallRejected /\ Len(script') = Len(script) + 1

\* a call whose fingerprint had failed before ends without having claimed,
\* and "Prior attempt failed" reaches the body or the compensation walk
EndsAsPriorFailure(t) ==
    (CallEnds(t) /\ FailedBefore(Top(t).tool, Top(t).arg, Top(t).phase)) =>
        /\ Top(t).id = 0
        /\ rows' = rows
        /\ seq_no' = seq_no
        /\ executed_steps' = executed_steps
        /\ invoked' = invoked
        /\ Depth(t) = 1 => last'[t] = "PriorAttemptFailed"

\* the INSERT of a call whose fingerprint had failed before adds no row and
\* does not advance seq_no
LosesClaim(t) ==
    IF Depth(t) = 0 THEN TRUE
    ELSE (/\ Top(t).pc = "claim"
          /\ Len(stack'[t]) = Depth(t)
          /\ stack'[t][Depth(t)].pc # "claim"
          /\ FailedBefore(Top(t).tool, Top(t).arg, Top(t).phase)) =>
             /\ stack'[t][Depth(t)].pc = "wait"
             /\ rows' = rows
             /\ seq_no' = seq_no

\* C34 as stated: once the row of a fingerprint is in status error, every
\* later call of the fingerprint in the run raises "Prior attempt failed"
\* and neither invokes the user function, nor inserts a row, nor advances
\* seq_no, nor pushes an ExecutedStep.
C34_FailedNeverReexecuted ==
    [][/\ \A t \in Threads : EndsAsPriorFailure(t) /\ LosesClaim(t)
       /\ Refused =>
             ~FailedBefore(script'[Len(script')].tool, script'[Len(script')].arg,
                           "forward")]_vars

\* C34 (amended): once the row of a fingerprint is in status error, no later
\* call of the fingerprint in the run invokes the user function, inserts a
\* row, advances seq_no or pushes an ExecutedStep; the call raises "Prior
\* attempt failed", or, a forward call made while total_cost is above
\* budget_limit, BudgetExceeded from the pre-execution check.
C34_FailedNeverReexecutedAmended ==
    [][/\ \A t \in Threads : EndsAsPriorFailure(t) /\ LosesClaim(t)
       /\ (/\ Refused
           /\ FailedBefore(script'[Len(script')].tool, script'[Len(script')].arg,
                           "forward")) =>
             /\ script'[Len(script')].exc = "BudgetExceeded"
             /\ is_budget_exceeded(total_cost)
             /\ rows' = rows
             /\ seq_no' = seq_no
             /\ executed_steps' = executed_steps
             /\ invoked' = invoked]_vars

\* a call of a fingerprint whose first attempt had raised ended with "Prior
\* attempt failed"; the user function of the fingerprint ran once
C34_Witness ==
    \E o \in outcomes :
        /\ ~o.won
        /\ o.exc = "PriorAttemptFailed"
        /\ invoked[o.key] = 1
        /\ \E i \in RowsOf(o.key[1], o.key, o.key[2]) :
              rows[i].status = "error" /\ rows[i].error = "ToolFailure"

\* the call on top of the stack of thread t is a call of a step from inside
\* the user function of that step, with the same fingerprint
SelfNested(t) ==
    IF Depth(t) < 2 THEN FALSE
    ELSE \E d \in 1..(Depth(t) - 1) :
            /\ stack[t][d].tool = Top(t).tool
            /\ stack[t][d].arg = Top(t).arg
            /\ stack[t][d].phase = Top(t).phase

\* a self-nested call that ends has not claimed, its row is the pending row
\* of the outer call, and it raises the timeout: no call of the fingerprint
\* has returned and the user function is not invoked again
SelfEndsInTimeout(t) ==
    (SelfNested(t) /\ CallEnds(t)) =>
        /\ Top(t).id = 0
        /\ RowPending(t)
        /\ stack'[t][Depth(t) - 1].inner = "Timeout"
        /\ \A o \in outcomes' : o.key = Top(t).key => o.kind = "raise"
        /\ invoked' = invoked
        /\ rows' = rows

\* the call a user function makes is refused at entry in this step
SelfRefused == CallRejected /\ Len(script') = Len(script)

\* C35 as stated: a call of the executing step from inside its own user
\* function, with the same fingerprint, never returns a result: it waits on
\* the pending row of the outer call and always ends in the timeout.
C35_SelfNestingTimesOut ==
    /\ [][(\A t \in Threads : SelfEndsInTimeout(t)) /\ ~SelfRefused]_vars
    /\ \A t \in Threads : SelfNested(t) ~> ~SelfNested(t)

\* C35 (amended): a call of the executing step from inside its own user
\* function, with the same fingerprint, never returns a result: it is
\* refused with BudgetExceeded when total_cost is above budget_limit at its
\* entry, and otherwise waits on the pending row of the outer call and
\* always ends in the timeout.
C35_SelfNestingNeverReturns ==
    /\ [][/\ \A t \in Threads : SelfEndsInTimeout(t)
           /\ SelfRefused =>
                 /\ is_budget_exceeded(total_cost)
                 /\ stack'["m"][Depth("m")].inner = "BudgetExceeded"
                 /\ invoked' = invoked
                 /\ rows' = rows]_vars
    /\ \A t \in Threads : SelfNested(t) ~> ~SelfNested(t)

\* the user function of a step has called the step itself and the call has
\* ended in the timeout while the outer call's row is pending
C35_Witness ==
    /\ Depth("m") = 1
    /\ Top("m").pc = "func"
    /\ Top("m").inner = "Timeout"
    /\ \E o \in outcomes : ~o.won /\ o.exc = "Timeout" /\ o.key = Top("m").key
    /\ \E i \in RowsOf(Top("m").tool, Top("m").key, "forward") :
          rows[i].status = "pending" /\ rows[i].id = Top("m").id

\* a step that changes the status of row i is taken by the call that
\* inserted the row
ChangedByInserter(i) ==
    rows'[i].status # rows[i].status =>
        \E t \in Threads :
            /\ Depth(t) > 0
            /\ Top(t).id = rows[i].id
            /\ stack'[t] # stack[t]
            /\ \A u \in Threads \ {t} : stack'[u] = stack[u]

\* the call on top of the stack of thread t has an abandoned row of its
\* fingerprint before it and has not claimed
BehindAbandoned(t) ==
    IF Depth(t) = 0 THEN FALSE
    ELSE Top(t).id = 0 /\ AbandonedBefore(Top(t).tool, Top(t).arg, Top(t).phase)

\* a call whose fingerprint has an abandoned row ends in the timeout, having
\* neither claimed nor invoked the user function
EndsInTimeout(t) ==
    (CallEnds(t) /\ AbandonedBefore(Top(t).tool, Top(t).arg, Top(t).phase)) =>
        /\ Top(t).id = 0
        /\ rows' = rows
        /\ invoked' = invoked
        /\ IF Depth(t) = 1 THEN last'[t] = "Timeout"
           ELSE stack'[t][Depth(t) - 1].inner = "Timeout"

\* every row is changed by its inserter only; an abandoned row stays as it
\* is; a call behind an abandoned row ends in the timeout
RowsKeptByInserter ==
    /\ \A i \in 1..Len(rows) : ChangedByInserter(i)
    /\ \A i \in 1..Len(rows) : Abandoned(i) => rows'[i].status = "pending"
    /\ \A t \in Threads : EndsInTimeout(t)

\* a step call of the workflow body whose fingerprint has an abandoned row
\* is refused at entry in this step
RefusedBehindAbandoned ==
    /\ Refused
    /\ AbandonedBefore(script'[Len(script')].tool, script'[Len(script')].arg, "forward")

\* C36 as stated: a pending row is only ever finalized by the caller that
\* inserted it; when that caller stops before finalizing, the row stays
\* pending in every later state and every later call of the fingerprint in
\* the run ends in the timeout without the user function being executed.
C36_AbandonedRowTimesOut ==
    /\ [][RowsKeptByInserter /\ ~RefusedBehindAbandoned]_vars
    /\ \A t \in Threads : BehindAbandoned(t) ~> ~BehindAbandoned(t)

\* C36 (amended): a pending row is only ever finalized by the caller that
\* inserted it; when that caller stops before finalizing, the row stays
\* pending in every later state and no later call of the fingerprint in the
\* run executes the user function: the call ends in the timeout, or, when
\* total_cost is above budget_limit at its entry, it is refused with
\* BudgetExceeded by the pre-execution check.
C36_AbandonedRowNeverServed ==
    /\ [][/\ RowsKeptByInserter
          /\ RefusedBehindAbandoned =>
                /\ script'[Len(script')].exc = "BudgetExceeded"
                /\ is_budget_exceeded(total_cost)
                /\ rows' = rows
                /\ invoked' = invoked]_vars
    /\ \A t \in Threads : BehindAbandoned(t) ~> ~BehindAbandoned(t)

\* the body was cancelled inside a user function, the row of that call is
\* abandoned, and a call of the same fingerprint on the worker thread has
\* ended in the timeout
C36_Witness ==
    /\ last["m"] = "Cancelled"
    /\ last["w"] = "Timeout"
    /\ \E i \in 1..Len(rows) :
          /\ Abandoned(i)
          /\ invoked[rows[i].key] = 1
          /\ \E o \in outcomes : o.key = rows[i].key /\ ~o.won /\ o.exc = "Timeout"

\* the forward row that entry n of executed_steps was pushed for
RowOfEntry(n) ==
    { i \in ForwardRows :
        /\ rows[i].tool = executed_steps[n].tool
        /\ rows[i].key = compute_idempotency_key(executed_steps[n].tool,
                                                 executed_steps[n].arg, "forward") }

\* the call that claimed row i has come past the append of lines 380-388
PastPush(i) ==
    \A t \in Threads : \A d \in 1..Depth(t) :
        stack[t][d].id = i => stack[t][d].pc \notin {"advance", "push"}

\* executed_steps has one entry for every claimed forward row and no other
\* entry
OneEntryPerClaim ==
    /\ \A n \in 1..Len(executed_steps) : Cardinality(RowOfEntry(n)) = 1
    /\ \A i \in ForwardRows :
          PastPush(i) =>
              Cardinality({ n \in 1..Len(executed_steps) : i \in RowOfEntry(n) }) = 1
    /\ \A i \in ForwardRows :
          Cardinality({ n \in 1..Len(executed_steps) : i \in RowOfEntry(n) }) <= 1

\* the entries of executed_steps stand in the order in which their rows
\* were inserted
InClaimOrder ==
    \A n1, n2 \in 1..Len(executed_steps) :
        n1 < n2 => \A i1 \in RowOfEntry(n1), i2 \in RowOfEntry(n2) : i1 < i2

\* C37 as stated: executed_steps has exactly one entry per forward row that
\* the session claimed, in claim order; calls that lost the claim, calls
\* the budget check rejected and compensation calls push nothing, and no
\* entry is removed before the session ends.
C37_StackMatchesClaims == OneEntryPerClaim /\ InClaimOrder

\* the rows whose claim is complete: inserted (338-372) and counted by
\* self.seq_no = next_seq_no (374-375)
ClaimedRows ==
    { i \in 1..Len(rows) :
        \A t \in Threads : \A d \in 1..Depth(t) :
            stack[t][d].id = i => stack[t][d].pc # "advance" }

\* C38: in a session driven by a single thread, nested step calls and the
\* compensation walk included, seq_no equals the number of rows the session
\* has claimed, the rows carry seq_no 1..n in claim order without gaps, and
\* every compensation-phase row has a seq_no greater than that of every
\* forward-phase row of the run.
C38_SoloSeqNoCountsClaims ==
    /\ seq_no = Cardinality(ClaimedRows)
    /\ \A i \in 1..Len(rows) : rows[i].seq_no = i
    /\ \A i \in ForwardRows, j \in CompRows : rows[j].seq_no > rows[i].seq_no

\* a single-thread session with a step nested in another step has failed
\* and both compensators were called: two forward and two compensation
\* rows, and seq_no is 4
C38_Witness ==
    /\ Compensated
    /\ Len(CompSeq) = 2
    /\ \E i \in ForwardRows : rows[i].parent # 0
    /\ seq_no = 4
    /\ Len(rows) = 4

\* __exit__ of the session, forward or replay, ends in this step
SessionExits == sphase' # sphase /\ sphase' \in {"closed", "replayed"}

\* C39: __exit__ sets the ambient current_session to null whatever session
\* was ambient at __enter__; after a session opened inside the scope of
\* another session has exited, a wrapped step called in the outer scope
\* finds no ambient session and passes through: the function is called
\* directly and nothing is recorded.
C39_ExitClearsAmbient ==
    [][ /\ SessionExits => current_session' = NONE
        /\ (ncalls' # ncalls /\ sphase = "closed") =>
              /\ outer_session = "O"
              /\ current_session = NONE
              /\ direct'["m"] = direct["m"] + 1
              /\ UNCHANGED storeVars ]_vars

\* the inner session recorded a step and has exited, and a wrapped step
\* called afterwards in the scope of the outer session went straight to its
\* function
C39_Witness ==
    /\ outer_session = "O"
    /\ sphase = "closed"
    /\ current_session = NONE
    /\ direct["m"] = 1
    /\ Len(rows) = 1
    /\ rows[1].status = "success"

\* trail r executes the INSERT of a step row in this step
Inserts(r) == tctl[r].pc = "insert" /\ tctl'[r] # tctl[r]

\* C40 as stated: every step call of AgentTrail that is not a cache hit
\* inserts a step row whose (run_id, name, attempt) differs from that of
\* every existing row, so the insert never violates UNIQUE(run_id, name,
\* attempt), also when a step that failed is retried in the same run.
C40_InsertNeverCollides ==
    [][\A r \in Trails :
          Inserts(r) =>
              /\ Len(tsteps') = Len(tsteps) + 1
              /\ \A i \in 1..Len(tsteps) :
                    <<tsteps[i].run_id, tsteps[i].name, tsteps[i].attempt>> #
                    <<tsteps'[Len(tsteps')].run_id, tsteps'[Len(tsteps')].name,
                      tsteps'[Len(tsteps')].attempt>>
              /\ tctl'[r].last # "IntegrityError"
              /\ tctl'[r].leaving # "IntegrityError"]_vars

====
